---- MODULE Spec2Model ----
(***************************************************************************)
(* The request pipeline the tutorial's guards, pipes, interceptors and     *)
(* exception filters plug into: one request travelling through the guard   *)
(* chain, the interceptors, the parameter pipes, the route handler and the *)
(* exceptions layer.  Guards, pipes, interceptors and filters are the      *)
(* classes of src/src/common; the order in which the framework calls them  *)
(* is taken from the doc comments of the same files.                       *)
(***************************************************************************)
EXTENDS Integers, Sequences, FiniteSets, TLC

\* ------------------------------------------------------------------ bounds

\* Longest guard list of a route.
MaxGuards == 2
\* Longest interceptor list of a route.
MaxInterceptors == 2
\* Most parameter slots of a handler.
MaxSlots == 2
\* Longest filter list of one @UseFilters().
MaxFilters == 2
\* Most register() calls of a setup.
MaxRegistrations == 3
\* Most requests in flight at once.
MaxInflight == 2

\* ------------------------------------------------------------------ values

\* JavaScript values, as far as the pipeline looks at them.  A string is the
\* sequence of its characters.
Undefined == [kind |-> "undefined", val |-> 0]
Null == [kind |-> "null", val |-> 0]
NaN == [kind |-> "NaN", val |-> 0]
EmptyArray == [kind |-> "array", val |-> 0]
EmptyString == [kind |-> "string", val |-> << >>]
Num(n) == [kind |-> "number", val |-> n]
Str(s) == [kind |-> "string", val |-> s]
\* { data: v }
DataObject(v) == [kind |-> "data", val |-> v]
\* { id: v, name: 'test' }
UserEntity(v) == [kind |-> "userEntity", val |-> v]
\* A thrown exception, by its class name.
Err(name) == [kind |-> "error", val |-> name]

IsErr(v) == v.kind = "error"

Digits == <<"0", "1", "2", "3", "4", "5", "6", "7", "8", "9">>

IsDigit(c) == \E i \in 1..10 : Digits[i] = c

DigitVal(c) == (CHOOSE i \in 1..10 : Digits[i] = c) - 1

RECURSIVE NatToStr(_)
NatToStr(n) ==
  IF n < 10 THEN << Digits[n + 1] >>
  ELSE NatToStr(n \div 10) \o << Digits[(n % 10) + 1] >>

\* String(v), the conversion parseInt applies to its first argument.
ToStringJS(v) ==
  CASE v.kind = "string" -> v.val
    [] v.kind = "number" ->
         IF v.val < 0 THEN <<"-">> \o NatToStr(0 - v.val) ELSE NatToStr(v.val)
    [] v.kind = "undefined" -> <<"u", "n", "d", "e", "f", "i", "n", "e", "d">>
    [] v.kind = "null" -> <<"n", "u", "l", "l">>
    [] v.kind = "NaN" -> <<"N", "a", "N">>
    [] v.kind = "array" -> << >>
    [] OTHER -> <<"[", "o", "b", "j", "e", "c", "t", " ", "O", "b", "j", "e", "c", "t", "]">>

RECURSIVE StripLeadingSpace(_)
StripLeadingSpace(s) ==
  IF s # << >> /\ Head(s) = " " THEN StripLeadingSpace(Tail(s)) ELSE s

\* The value of the longest prefix of decimal digits of s, continuing from acc.
RECURSIVE DigitPrefixValue(_, _)
DigitPrefixValue(s, acc) ==
  IF s # << >> /\ IsDigit(Head(s))
  THEN DigitPrefixValue(Tail(s), 10 * acc + DigitVal(Head(s)))
  ELSE acc

\* parseInt(value, 10): leading white space is skipped, one sign is read, then
\* the longest run of digits; what follows the digits is ignored and no digit
\* at all gives NaN.
ParseIntJS(v) ==
  LET s == StripLeadingSpace(ToStringJS(v))
      neg == s # << >> /\ Head(s) = "-"
      signed == s # << >> /\ Head(s) \in {"-", "+"}
      body == IF signed THEN Tail(s) ELSE s
  IN IF body = << >> \/ ~IsDigit(Head(body)) THEN NaN
     ELSE Num((IF neg THEN -1 ELSE 1) * DigitPrefixValue(body, 0))

\* isNaN(val)
IsNaNJS(v) == v.kind = "NaN"

\* ------------------------------------------------------------------- pipes

\* A ParseIntPipe that lets a missing value through.
ParseIntPipeLenient(value) ==
  IF value.kind = "undefined" THEN value
  ELSE LET val == ParseIntJS(value)
       IN IF IsNaNJS(val) THEN Err("BadRequestException") ELSE val

\* A ParseIntPipe that forgets the isNaN check.
ParseIntPipeUnchecked(value) == ParseIntJS(value)

\* ParseIntPipe.transform
ParseIntPipe(value) ==
  LET val == ParseIntJS(value)
  IN IF IsNaNJS(val) THEN Err("BadRequestException") ELSE val

\* The exception of the ParseIntPipe of @nestjs/common:
\* 'Validation Failed (numeric string is expected)'.
NumericStringExpected == "BadRequestException: numeric string is expected"

\* The ParseIntPipe of @nestjs/common: a numeric string becomes its integer,
\* anything else is rejected.
NestParseIntPipe(value) ==
  IF /\ value.kind = "string"
     /\ value.val # << >>
     /\ \A i \in DOMAIN value.val : IsDigit(value.val[i])
  THEN ParseIntJS(value)
  ELSE Err(NumericStringExpected)

\* A DefaultValuePipe that never injects its default.
DefaultValuePipeNever(d, value) == value

\* new DefaultValuePipe(d).transform: the default is injected for a missing
\* value, any other value passes.
DefaultValuePipe(d, value) ==
  IF value.kind \in {"undefined", "null"} THEN d ELSE value

\* UserByIdPipe.transform
UserByIdPipe(value) == UserEntity(value)

\* The pipes a slot may declare.
PipeKinds ==
  {"ParseIntPipe", "NestParseIntPipe", "DefaultValuePipe5", "UserByIdPipe"}

\* pipe.transform(value, metadata) of a declared pipe.
Transform(pipe, value) ==
  CASE pipe = "ParseIntPipe" -> ParseIntPipe(value)
    [] pipe = "DefaultValuePipe5" -> DefaultValuePipe(Num(5), value)
    [] pipe = "UserByIdPipe" -> UserByIdPipe(value)
    [] pipe = "NestParseIntPipe" -> NestParseIntPipe(value)

\* ------------------------------------------------------------------ guards

Bool(b) == [kind |-> "boolean", val |-> b]

Range(s) == {s[i] : i \in DOMAIN s}

\* Every sequence over S of length at most n.
SeqsUpTo(S, n) == UNION {[1..k -> S] : k \in 0..n}

\* The roles metadata of a handler: absent, or the list given to @Roles().
NoRoles == [present |-> FALSE, list |-> << >>]
Roles(list) == [present |-> TRUE, list |-> list]

\* The guards a route may declare.  UnauthorizedGuard is the guard of the
\* closing remark of the guards chapter, which throws its own exception.
GuardKinds == {"AuthGuard", "RolesGuard", "RolesGuard2", "UnauthorizedGuard"}

\* AuthGuard.validateRequest
validateRequest(req) == req.bodyUser = "admin"

\* AuthGuard.canActivate
AuthGuard(req) == Bool(validateRequest(req))

\* RolesGuard.canActivate
RolesGuard(req) == Bool(TRUE)

\* A matchRoles for which an empty list of roles admits every user.
matchRolesEmptyAdmits(roles, userRole) ==
  roles = << >> \/ userRole \in Range(roles)

\* RolesGuard2.matchRoles
matchRoles(roles, userRole) == userRole \in Range(roles)

\* A RolesGuard2 that returns false when no user is attached.
RolesGuard2DeniesAbsent(roles, req) ==
  IF ~roles.present THEN Bool(TRUE)
  ELSE IF req.user = "absent" THEN Bool(FALSE)
  ELSE Bool(matchRoles(roles.list, req.user))

\* RolesGuard2.canActivate; reading user.role of an absent user throws.
RolesGuard2(roles, req) ==
  IF ~roles.present THEN Bool(TRUE)
  ELSE IF req.user = "absent" THEN Err("TypeError")
  ELSE Bool(matchRoles(roles.list, req.user))

\* A guard that returns false where it should throw.
UnauthorizedGuardReturnsFalse(req) == Bool(FALSE)

\* A guard that throws its own specific exception.
UnauthorizedGuard(req) == Err("UnauthorizedException")

\* guard.canActivate(context): Bool(TRUE), Bool(FALSE) or the exception thrown.
canActivate(guard, rt, req) ==
  CASE guard = "AuthGuard" -> AuthGuard(req)
    [] guard = "RolesGuard" -> RolesGuard(req)
    [] guard = "RolesGuard2" -> RolesGuard2(rt.roles, req)
    [] guard = "UnauthorizedGuard" -> UnauthorizedGuard(req)

\* A refusal raised as a plain Error.
GuardDeniedPlainError == Err("Error")

\* What the framework raises when a guard returns false.
GuardDenied == Err("ForbiddenException")

\* ------------------------------------------------------------ interceptors

InterceptorKinds ==
  {"LoggingInterceptor", "TransformInterceptor", "ExcludeNullInterceptor",
   "ErrorsInterceptor", "CacheInterceptor", "TimeoutInterceptor"}

\* A cache that never hits.
isCachedNever == FALSE

\* CacheInterceptor's hardcoded isCached.
isCached == TRUE

\* A LoggingInterceptor that forgets to return next.handle().
CallsHandleLoggingForgets(ic) == ic \notin {"CacheInterceptor", "LoggingInterceptor"}

\* Whether intercept() of this interceptor calls next.handle().
CallsHandle(ic) == IF ic = "CacheInterceptor" THEN ~isCached ELSE TRUE

\* A cache that answers null.
OwnStreamNull(ic) == Null

\* The stream an interceptor returns when it does not call next.handle():
\* CacheInterceptor's of([]).
OwnStream(ic) == EmptyArray

\* LoggingInterceptor: tap() leaves the notification alone.
LoggingPost(n) == n

\* TransformInterceptor: map((data) => ({ data })).
TransformPost(n) == IF IsErr(n) THEN n ELSE DataObject(n)

\* ExcludeNullInterceptor: map((value) => (value === null ? '' : value)).
ExcludeNullPost(n) == IF n = Null THEN EmptyString ELSE n

\* An ErrorsInterceptor that lets an HttpException through as it is.
ErrorsPostKeepsHttp(n) ==
  IF IsErr(n) /\ n.val \notin {"BadRequestException", "ForbiddenException"}
  THEN Err("BadGatewayException") ELSE n

\* An ErrorsInterceptor that answers an error with an empty list:
\* catchError(() => of([])).
ErrorsPostRecovers(n) == IF IsErr(n) THEN EmptyArray ELSE n

\* ErrorsInterceptor: catchError(() => throwError(() => new BadGatewayException())).
ErrorsPost(n) == IF IsErr(n) THEN Err("BadGatewayException") ELSE n

\* A TimeoutInterceptor whose catchError answers every error with
\* RequestTimeoutException.
TimeoutPostAlways(n) ==
  IF IsErr(n) THEN Err("RequestTimeoutException") ELSE n

\* A TimeoutInterceptor whose catchError rethrows whatever it gets.
TimeoutPostRethrow(n) == n

\* TimeoutInterceptor: catchError maps rxjs' TimeoutError to
\* RequestTimeoutException and rethrows any other error.
TimeoutPost(n) ==
  IF n = Err("TimeoutError") THEN Err("RequestTimeoutException") ELSE n

\* A timeout that leaves the inner stream subscribed.
ListensAfterTimeoutLeak == TRUE

\* Whether TimeoutInterceptor still listens to the inner stream once
\* timeout() has raised TimeoutError: the operator unsubscribes from it.
ListensAfterTimeout == FALSE

\* What an interceptor's operators make of the notification (a value or an
\* error) its next.handle() stream delivers.
PostLogic(ic, n) ==
  CASE ic = "LoggingInterceptor" -> LoggingPost(n)
    [] ic = "TransformInterceptor" -> TransformPost(n)
    [] ic = "ExcludeNullInterceptor" -> ExcludeNullPost(n)
    [] ic = "ErrorsInterceptor" -> ErrorsPost(n)
    [] ic = "TimeoutInterceptor" -> TimeoutPost(n)
    [] OTHER -> n

\* ------------------------------------------------------- exceptions layer

\* The exception classes that extend HttpException.
HttpExceptions ==
  {"ForbiddenException", "UnauthorizedException", "BadRequestException",
   NumericStringExpected,
   "RequestTimeoutException", "BadGatewayException"}

\* exception.getStatus()
getStatus(e) ==
  CASE e = "ForbiddenException" -> 403
    [] e = "UnauthorizedException" -> 401
    [] e = "BadRequestException" -> 400
    [] e = NumericStringExpected -> 400
    [] e = "RequestTimeoutException" -> 408
    [] e = "BadGatewayException" -> 502

\* The failure kind a response status stands for.
KindOfStatus(s) ==
  CASE s = 403 -> "Forbidden"
    [] s = 401 -> "Unauthorized"
    [] s = 400 -> "ValidationFailed"
    [] s = 408 -> "Timeout"
    [] s = 502 -> "BadGateway"
    [] s = 404 -> "NotFound"
    [] OTHER -> "InternalError"

\* Errors that are no HttpException but carry statusCode and message
\* properties, as those of the http-errors library do.
HttpErrors == {"NotFoundError"}

\* The statusCode property of such an error.
statusCode(e) == 404

\* The message an exception was constructed with.
getMessage(e) ==
  CASE e = "ForbiddenException" -> "Forbidden"
    [] e = "UnauthorizedException" -> "Unauthorized"
    [] e = "BadRequestException" -> "Validation failed"
    [] e = NumericStringExpected -> "Validation Failed (numeric string is expected)"
    [] e = "RequestTimeoutException" -> "Request Timeout"
    [] e = "BadGatewayException" -> "Bad Gateway"
    [] e = "NotFoundError" -> "Not Found"
    [] e = "TypeError" -> "Cannot read properties of undefined (reading 'role')"
    [] OTHER -> "cause of the failure"

FilterKinds == {"HttpExceptionFilter", "AllExceptionsFilter"}

\* Every filter bound to HttpException only, whatever its @Catch() names.
CatchesHttpOnly(filter, e) == e \in HttpExceptions

\* @Catch(...): the exceptions a filter is bound to.
Catches(filter, e) ==
  CASE filter = "HttpExceptionFilter" -> e \in HttpExceptions
    [] filter = "AllExceptionsFilter" -> TRUE

\* The first declared filter bound to the exception, else the built-in
\* global exception filter.
RECURSIVE SelectFilter(_, _)
SelectFilter(filters, e) ==
  IF filters = << >> THEN "BaseExceptionFilter"
  ELSE IF Catches(Head(filters), e) THEN Head(filters)
  ELSE SelectFilter(Tail(filters), e)

\* The filters of a route by scope: @UseFilters() on the method, @UseFilters()
\* on the controller, useGlobalFilters() / APP_FILTER.
Filters(method, controller, global) ==
  [method |-> method, controller |-> controller, global |-> global]

NoFilters == Filters(<< >>, << >>, << >>)

\* The order in which the exceptions layer asks the filters of a route:
\* method-scoped, then controller-scoped, then global.
FilterOrder(f) == f.method \o f.controller \o f.global

NoOutcome ==
  [type |-> "None", kind |-> "None", value |-> Undefined, message |-> "",
   by |-> "none"]
Success(v) ==
  [type |-> "Success", kind |-> "Success", value |-> v, message |-> "",
   by |-> "none"]
Failure(status, message, by) ==
  [type |-> "Failure", kind |-> KindOfStatus(status), value |-> Undefined,
   message |-> message, by |-> by]

\* A built-in exception filter that populates the response from whatever
\* was thrown.
BaseExceptionFilterLeaks(e, by) ==
  IF e \in HttpExceptions THEN Failure(getStatus(e), getMessage(e), by)
  ELSE IF e \in HttpErrors THEN Failure(statusCode(e), getMessage(e), by)
  ELSE Failure(500, getMessage(e), by)

\* The built-in exception filter: an HttpException answers with its status
\* and message, an error carrying statusCode and message with those, and
\* anything else with 500 'Internal Server Error'.
BaseExceptionFilter(e, by) ==
  IF e \in HttpExceptions THEN Failure(getStatus(e), getMessage(e), by)
  ELSE IF e \in HttpErrors THEN Failure(statusCode(e), getMessage(e), by)
  ELSE Failure(500, "Internal Server Error", by)

\* HttpExceptionFilter.catch
HttpExceptionFilter(e) == Failure(getStatus(e), "", "HttpExceptionFilter")

\* AllExceptionsFilter.catch: super.catch(exception, host)
AllExceptionsFilter(e) == BaseExceptionFilter(e, "AllExceptionsFilter")

\* filter.catch(exception, host) of the selected filter.
Catch(filter, e) ==
  CASE filter = "HttpExceptionFilter" -> HttpExceptionFilter(e)
    [] filter = "AllExceptionsFilter" -> AllExceptionsFilter(e)
    [] OTHER -> BaseExceptionFilter(e, "BaseExceptionFilter")

\* ----------------------------------------------------- routes and requests

\* The pipe lists a slot may declare.
PipeLists ==
  {<< >>, <<"ParseIntPipe">>, <<"DefaultValuePipe5", "ParseIntPipe">>,
   <<"ParseIntPipe", "DefaultValuePipe5">>, <<"ParseIntPipe", "UserByIdPipe">>}

\* What a request may carry in a parameter: nothing, or a string.
RawInputs ==
  {Undefined, Str(<<"7">>), Str(<<"4", "2">>), Str(<<"x">>),
   Str(<<"a", "b", "c">>), Str(<<"7", "x">>)}

RolesMetadata == {NoRoles, Roles(<<"admin">>), Roles(<< >>)}

\* request.body.user
BodyUsers == {"admin", "guest"}

\* The role of request.user, or "absent" when no user is attached.
RequestUsers == {"absent", "admin", "user"}

Route(guards, roles, interceptors, slots, filters) ==
  [guards |-> guards, roles |-> roles, interceptors |-> interceptors,
   slots |-> slots, filters |-> filters]

Request(bodyUser, user, params) ==
  [bodyUser |-> bodyUser, user |-> user, params |-> params]

\* Routes and requests that vary the guard chain.
GuardCases ==
  {<<Route(g, r, i, s, NoFilters), Request(b, u, p)>> :
     g \in SeqsUpTo(GuardKinds, MaxGuards), r \in RolesMetadata,
     i \in {<< >>, <<"CacheInterceptor">>},
     s \in {<< <<"ParseIntPipe">> >>},
     b \in BodyUsers, u \in RequestUsers,
     p \in {<<Str(<<"4", "2">>)>>, <<Str(<<"a", "b", "c">>)>>}}

\* Routes and requests that vary the interceptors and the filters.
InterceptorCases ==
  {<<Route(g, NoRoles, i, s, f), Request(b, "absent", p)>> :
     g \in {<< >>, <<"AuthGuard">>},
     i \in SeqsUpTo(InterceptorKinds, MaxInterceptors),
     s \in {<< <<"ParseIntPipe">> >>},
     f \in {Filters(m, << >>, << >>) : m \in SeqsUpTo(FilterKinds, 1)},
     b \in BodyUsers,
     p \in {<<Str(<<"4", "2">>)>>, <<Str(<<"a", "b", "c">>)>>}}

\* Routes and requests that vary the slots, their pipes and their inputs.
PipeCases ==
  {<<Route(<< >>, NoRoles, i, s, NoFilters), Request("admin", "absent", p)>> :
     i \in {<< >>},
     s \in SeqsUpTo(PipeLists, MaxSlots),
     p \in SeqsUpTo(RawInputs, MaxSlots)}

\* Routes and requests that vary the filters and their scopes.
FilterCases ==
  {<<Route(<<"AuthGuard">>, NoRoles, << >>, << <<"ParseIntPipe">> >>,
           Filters(m, c, g)),
     Request(b, "absent", p)>> :
     m \in SeqsUpTo(FilterKinds, MaxFilters),
     c \in SeqsUpTo(FilterKinds, 1),
     g \in SeqsUpTo(FilterKinds, 1),
     b \in BodyUsers,
     p \in {<<Str(<<"4", "2">>)>>, <<Str(<<"a", "b", "c">>)>>}}

\* Routes whose slots are parsed by the custom ParseIntPipe or by the one
\* of @nestjs/common, which reject an input with different messages.
SlotCases ==
  {c \in {<<Route(<< >>, NoRoles, << >>, s, NoFilters),
             Request("admin", "absent", p)>> :
             s \in SeqsUpTo({<<"ParseIntPipe">>, <<"NestParseIntPipe">>}, MaxSlots),
             p \in SeqsUpTo({Str(<<"4", "2">>), Str(<<"a", "b", "c">>)}, MaxSlots)} :
     Len(c[1].slots) = Len(c[2].params)}

Cases ==
  GuardCases \cup InterceptorCases \cup FilterCases \cup SlotCases
    \cup {c \in PipeCases : Len(c[1].slots) = Len(c[2].params)}

\* An interceptor that calls next.handle() and, once that stream has
\* delivered, calls next.handle() a second time.
ProceedTwice == "ProceedTwiceInterceptor"

\* Routes whose interceptors include one that calls next.handle() twice.
UsageCases ==
  {<<Route(g, NoRoles, i, << <<"ParseIntPipe">> >>, NoFilters),
     Request(b, "absent", p)>> :
     g \in {<< >>, <<"AuthGuard">>},
     i \in {x \in SeqsUpTo(InterceptorKinds \cup {ProceedTwice}, MaxInterceptors) :
              \E j \in DOMAIN x : x[j] = ProceedTwice},
     b \in BodyUsers,
     p \in {<<Str(<<"4", "2">>)>>, <<Str(<<"a", "b", "c">>)>>}}

\* What the route handler does once called: return its first argument (an
\* empty array when it takes none), return null, throw an HttpException
\* (403), or throw an error that is no HttpException.
HandlerBehaviours ==
  {"returnArg", "returnNull", "throwForbidden", "throwError", "throwHttpError"}

HandlerResult(b, args) ==
  CASE b = "returnArg" -> IF args = << >> THEN EmptyArray ELSE args[1]
    [] b = "returnNull" -> Null
    [] b = "throwForbidden" -> Err("ForbiddenException")
    [] b = "throwError" -> Err("Error")
    [] b = "throwHttpError" -> Err("NotFoundError")

\* ------------------------------------------------------------------- state

VARIABLES
  route,        \* the route's declarations
  request,      \* the incoming request
  stage,        \* where the request is: guards, intercept, waiting, post, translate, done
  gIdx,         \* the guard to evaluate next
  gPending,     \* whether that guard's canActivate() has been called and not resolved
  iIdx,         \* the interceptor to call next (intercept) or whose operators run next (post)
  listening,    \* whether the interceptors are subscribed to the handler's stream
  inner,        \* what handle() is doing: idle, pipes, running, settled
  slotPos,      \* per slot, the pipe to apply next
  slotVal,      \* per slot, the value so far
  handlerCalls, \* how many times the route handler was called
  handlerArgs,  \* the arguments it was called with
  notif,        \* the value or error travelling back through the interceptors
  yielded,      \* per interceptor, what its stream delivered
  outcome,      \* the response
  responses,    \* how many responses were written
  discarded,    \* how many results of handle() nobody listened to
  timedOut,     \* the position of the TimeoutInterceptor whose deadline passed, else 0
  log,          \* guard, interceptor, handler and filter calls, in order
  store,        \* the registered route descriptors, by routeId
  registrations,\* the register() calls made, in order
  lastOp,       \* the last register() or lookup() and its result
  inflight,     \* the requests in flight at once, each with its own context
  validation,   \* a call of ValidationPipe.transform: its arguments and how far it is
  cats,         \* CatsService's private cats array
  catCalls,     \* the create() and findAll() calls made, with what each returned
  served        \* how many requests were dispatched to registered routes

pipelineVars ==
  <<route, request, stage, gIdx, gPending, iIdx, listening, inner, slotPos,
    slotVal, handlerCalls, handlerArgs, notif, yielded, outcome, responses,
    discarded, timedOut, log>>

\* What neither the pipeline, the store nor the requests in flight touch.
providerVars == <<validation, cats, catCalls>>

\* What the request pipeline leaves alone.
offPipeline == <<store, registrations, lastOp, inflight, providerVars, served>>

vars == <<pipelineVars, offPipeline>>

NoNotif == [kind |-> "none", val |-> 0]

NGuards == Len(route.guards)
NInterceptors == Len(route.interceptors)
NSlots == Len(route.slots)

\* A chain that nests the interceptors the other way round: the last
\* declared one outermost.
InterceptorOrderReversed(interceptors) ==
  [i \in 1..Len(interceptors) |-> interceptors[Len(interceptors) + 1 - i]]

\* The nesting of the interceptors of a route, outermost first: the order
\* in which they are declared.
InterceptorOrder(interceptors) == interceptors

\* The interceptors of the route, outermost first.
Chain == InterceptorOrder(route.interceptors)

\* A request of one of the cases arrives at its route.
Arrival(cases) ==
  /\ \E c \in cases : route = c[1] /\ request = c[2]
  /\ stage = "guards"
  /\ gIdx = 1
  /\ gPending = FALSE
  /\ iIdx = 1
  /\ listening = FALSE
  /\ inner = "idle"
  /\ slotPos = [s \in 1..Len(route.slots) |-> 1]
  /\ slotVal = request.params
  /\ handlerCalls = 0
  /\ handlerArgs = << >>
  /\ notif = NoNotif
  /\ yielded = [i \in 1..Len(route.interceptors) |-> NoNotif]
  /\ outcome = NoOutcome
  /\ responses = 0
  /\ discarded = 0
  /\ timedOut = 0
  /\ log = << >>

\* No ValidationPipe call.
NoValidation == [pc |-> "none"]

\* No provider is in use and no request was dispatched.
Idle ==
  /\ validation = NoValidation
  /\ cats = << >>
  /\ catCalls = << >>
  /\ served = 0

\* No descriptor: what an operation of the store that returns none carries.
NoDescriptor == [absent |-> TRUE]

NoOp ==
  [op |-> "none", routeId |-> "", given |-> NoDescriptor, status |-> "",
   found |-> NoDescriptor]

\* The store before setup.
EmptyStore ==
  /\ store = << >>
  /\ registrations = << >>
  /\ lastOp = NoOp
  /\ inflight = << >>
  /\ Idle

Init == Arrival(Cases) /\ EmptyStore

\* ----------------------------------------------------------------- actions

\* A guard chain that calls the next canActivate() without waiting for the
\* pending one.
GuardStartNoAwait ==
  /\ stage = "guards"
  /\ gIdx <= NGuards
  /\ gPending' = TRUE
  /\ log' = Append(log, <<"canActivate", IF gPending THEN gIdx + 1 ELSE gIdx>>)
  /\ UNCHANGED <<offPipeline, route, request, timedOut, stage, gIdx, iIdx, listening, inner, slotPos,
                 slotVal, handlerCalls, handlerArgs, notif, yielded, outcome,
                 responses, discarded>>

\* The request pipeline calls canActivate() of the next declared guard.
GuardStart ==
  /\ stage = "guards"
  /\ ~gPending
  /\ gIdx <= NGuards
  /\ gPending' = TRUE
  /\ log' = Append(log, <<"canActivate", gIdx>>)
  /\ UNCHANGED <<offPipeline, route, request, timedOut, stage, gIdx, iIdx, listening, inner, slotPos,
                 slotVal, handlerCalls, handlerArgs, notif, yielded, outcome,
                 responses, discarded>>

\* The pending guard resolves: true lets the request go on to the next guard,
\* false makes the framework throw ForbiddenException, and an exception of
\* the guard goes to the exceptions layer as it is.
GuardResolve ==
  /\ stage = "guards"
  /\ gPending
  /\ LET r == canActivate(route.guards[gIdx], route, request)
     IN /\ gPending' = FALSE
        /\ log' = Append(log, <<"resolved", gIdx>>)
        /\ IF r = Bool(TRUE)
           THEN /\ gIdx' = gIdx + 1
                /\ UNCHANGED <<stage, notif>>
           ELSE /\ notif' = (IF r = Bool(FALSE) THEN GuardDenied ELSE r)
                /\ stage' = "translate"
                /\ UNCHANGED gIdx
  /\ UNCHANGED <<offPipeline, route, request, timedOut, iIdx, listening, inner, slotPos, slotVal,
                 handlerCalls, handlerArgs, yielded, outcome, responses,
                 discarded>>

\* Every guard returned true: the request is processed.
GuardsPassed ==
  /\ stage = "guards"
  /\ ~gPending
  /\ gIdx > NGuards
  /\ stage' = "intercept"
  /\ UNCHANGED <<offPipeline, route, request, timedOut, gIdx, gPending, iIdx, listening, inner,
                 slotPos, slotVal, handlerCalls, handlerArgs, notif, yielded,
                 outcome, responses, discarded, log>>

\* intercept() of the next declared interceptor runs.  One that calls
\* next.handle() hands over to the next interceptor; one that does not
\* returns its own stream, which the interceptors declared before it see.
Intercept ==
  /\ stage = "intercept"
  /\ iIdx <= NInterceptors
  /\ log' = Append(log, <<"intercept", iIdx>>)
  /\ IF CallsHandle(Chain[iIdx])
     THEN /\ iIdx' = iIdx + 1
          /\ UNCHANGED <<stage, notif, yielded>>
     ELSE /\ notif' = OwnStream(Chain[iIdx])
          /\ yielded' = [yielded EXCEPT ![iIdx] = OwnStream(Chain[iIdx])]
          /\ iIdx' = iIdx - 1
          /\ stage' = "post"
  /\ UNCHANGED <<offPipeline, route, request, timedOut, gIdx, gPending, listening, inner, slotPos,
                 slotVal, handlerCalls, handlerArgs, outcome, responses,
                 discarded>>

\* handle() of the innermost interceptor: the pipes of the handler's
\* parameters start, just before the method is invoked.
Handle ==
  /\ stage = "intercept"
  /\ iIdx > NInterceptors
  /\ stage' = "waiting"
  /\ listening' = TRUE
  /\ inner' = "pipes"
  /\ UNCHANGED <<offPipeline, route, request, timedOut, gIdx, gPending, iIdx, slotPos, slotVal,
                 handlerCalls, handlerArgs, notif, yielded, outcome, responses,
                 discarded, log>>

\* handle() produced r.  A listening interceptor chain takes it; after a
\* timeout nobody listens and r is dropped.
Deliver(r) ==
  IF listening
  THEN /\ notif' = r
       /\ stage' = "post"
       /\ iIdx' = NInterceptors
       /\ listening' = FALSE
       /\ UNCHANGED discarded
  ELSE /\ discarded' = discarded + 1
       /\ UNCHANGED <<notif, stage, iIdx, listening>>

\* The slots with a pipe still to run.  The slots are processed in parallel:
\* the next pipe of any of them may be the next to run.
ReadySlots == {s \in 1..NSlots : slotPos[s] <= Len(route.slots[s])}

\* A pipeline that hands every pipe of a slot the request's raw input.
PipeStepFromInput(s) ==
  /\ inner = "pipes"
  /\ slotPos[s] <= Len(route.slots[s])
  /\ LET v == Transform(route.slots[s][slotPos[s]], request.params[s])
     IN /\ slotVal' = [slotVal EXCEPT ![s] = v]
        /\ slotPos' = [slotPos EXCEPT ![s] = @ + 1]
        /\ IF IsErr(v)
           THEN /\ inner' = "settled"
                /\ Deliver(v)
           ELSE UNCHANGED <<inner, notif, stage, iIdx, listening, discarded>>
  /\ UNCHANGED <<offPipeline, route, request, timedOut, gIdx, gPending, handlerCalls, handlerArgs,
                 yielded, outcome, responses, log>>

\* A pipeline that goes on with the other slots after a pipe has thrown.
PipeStepNoAbort(s) ==
  /\ inner = "pipes"
  /\ slotPos[s] <= Len(route.slots[s])
  /\ LET v == Transform(route.slots[s][slotPos[s]], slotVal[s])
     IN /\ slotVal' = [slotVal EXCEPT ![s] = v]
        /\ slotPos' = [slotPos EXCEPT ![s] = IF IsErr(v) THEN Len(route.slots[s]) + 1 ELSE @ + 1]
  /\ UNCHANGED <<offPipeline, route, request, timedOut, gIdx, gPending, handlerCalls, handlerArgs,
                 yielded, outcome, responses, log, inner, notif, stage, iIdx,
                 listening, discarded>>

\* The next pipe of slot s transforms the slot's value.  A pipe that throws
\* ends handle() with its exception and no further pipe runs.
PipeStep(s) ==
  /\ inner = "pipes"
  /\ slotPos[s] <= Len(route.slots[s])
  /\ LET v == Transform(route.slots[s][slotPos[s]], slotVal[s])
     IN /\ slotVal' = [slotVal EXCEPT ![s] = v]
        /\ slotPos' = [slotPos EXCEPT ![s] = @ + 1]
        /\ IF IsErr(v)
           THEN /\ inner' = "settled"
                /\ Deliver(v)
           ELSE UNCHANGED <<inner, notif, stage, iIdx, listening, discarded>>
  /\ UNCHANGED <<offPipeline, route, request, timedOut, gIdx, gPending, handlerCalls, handlerArgs,
                 yielded, outcome, responses, log>>

\* Every pipe of every slot returned: the route handler is called with the
\* transformed arguments.
CallHandler ==
  /\ inner = "pipes"
  /\ \A s \in 1..NSlots : slotPos[s] > Len(route.slots[s])
  /\ inner' = "running"
  /\ handlerCalls' = handlerCalls + 1
  /\ handlerArgs' = slotVal
  /\ log' = Append(log, <<"handler", 0>>)
  /\ UNCHANGED <<offPipeline, route, request, timedOut, stage, gIdx, gPending, iIdx, listening,
                 slotPos, slotVal, notif, yielded, outcome, responses,
                 discarded>>

\* The route handler returns or throws; a throw is logged.
HandlerSettle(b) ==
  /\ inner = "running"
  /\ inner' = "settled"
  /\ Deliver(HandlerResult(b, handlerArgs))
  /\ log' = IF IsErr(HandlerResult(b, handlerArgs))
            THEN Append(log, <<"threw", 0>>) ELSE log
  /\ UNCHANGED <<offPipeline, route, request, timedOut, gIdx, gPending, slotPos, slotVal,
                 handlerCalls, handlerArgs, yielded, outcome, responses>>

\* The deadline of the TimeoutInterceptor at position k passes before
\* handle() has produced anything: timeout() raises TimeoutError into that
\* interceptor's catchError.  The pipes and the handler are not stopped.
TimeoutFires(k) ==
  /\ stage = "waiting"
  /\ listening
  /\ Chain[k] = "TimeoutInterceptor"
  /\ notif' = Err("TimeoutError")
  /\ listening' = ListensAfterTimeout
  /\ iIdx' = k
  /\ stage' = "post"
  /\ timedOut' = k
  /\ UNCHANGED <<offPipeline, route, request, gIdx, gPending, inner, slotPos, slotVal,
                 handlerCalls, handlerArgs, yielded, outcome, responses,
                 discarded, log>>

\* The first next.handle() of a ProceedTwiceInterceptor has delivered and
\* the interceptor has not called next.handle() again yet.
AwaitsSecondProceed ==
  /\ stage = "post"
  /\ iIdx >= 1
  /\ Chain[iIdx] = ProceedTwice
  /\ ~\E p \in DOMAIN log : log[p] = <<"again", iIdx>>

\* A CallHandler that lets handle() be called any number of times.
DetectsSecondProceedNever == FALSE

\* Whether the CallHandler of an interceptor refuses a second handle().
DetectsSecondProceed == TRUE

\* A ProceedTwiceInterceptor calls next.handle() the second time.  The call
\* is refused with InvalidInterceptorUsage, which the interceptor delivers;
\* a CallHandler that did not refuse would run the rest of the chain again.
ProceedAgain ==
  /\ AwaitsSecondProceed
  /\ log' = Append(log, <<"again", iIdx>>)
  /\ IF DetectsSecondProceed
     THEN /\ notif' = Err("InvalidInterceptorUsage")
          /\ yielded' = [yielded EXCEPT ![iIdx] = Err("InvalidInterceptorUsage")]
          /\ iIdx' = iIdx - 1
          /\ UNCHANGED <<stage, inner, slotPos, slotVal>>
     ELSE /\ stage' = "intercept"
          /\ iIdx' = iIdx + 1
          /\ inner' = "idle"
          /\ slotPos' = [s \in 1..NSlots |-> 1]
          /\ slotVal' = request.params
          /\ UNCHANGED <<notif, yielded>>
  /\ UNCHANGED <<offPipeline, route, request, timedOut, gIdx, gPending, listening,
                 handlerCalls, handlerArgs, outcome, responses, discarded>>

\* The operators of interceptor iIdx see what its next.handle() delivered.
Post ==
  /\ stage = "post"
  /\ iIdx >= 1
  /\ ~AwaitsSecondProceed
  /\ LET n == PostLogic(Chain[iIdx], notif)
     IN /\ notif' = n
        /\ yielded' = [yielded EXCEPT ![iIdx] = n]
  /\ log' = Append(log, <<"post", iIdx>>)
  /\ iIdx' = iIdx - 1
  /\ UNCHANGED <<offPipeline, route, request, timedOut, stage, gIdx, gPending, listening, inner,
                 slotPos, slotVal, handlerCalls, handlerArgs, outcome,
                 responses, discarded>>

\* The outermost stream delivered a value: it is the response.
Respond ==
  /\ stage = "post"
  /\ iIdx = 0
  /\ ~IsErr(notif)
  /\ outcome' = Success(notif)
  /\ responses' = responses + 1
  /\ stage' = "done"
  /\ UNCHANGED <<offPipeline, route, request, timedOut, gIdx, gPending, iIdx, listening, inner,
                 slotPos, slotVal, handlerCalls, handlerArgs, notif, yielded,
                 discarded, log>>

\* An exceptions layer whose filter throws what it caught again, back into
\* the exceptions layer.
TranslateRethrows ==
  /\ \/ stage = "translate"
     \/ stage = "post" /\ iIdx = 0 /\ IsErr(notif)
  /\ Len(log) < 12
  /\ outcome' = Catch(SelectFilter(FilterOrder(route.filters), notif.val), notif.val)
  /\ responses' = responses + 1
  /\ stage' = "translate"
  /\ log' = Append(log, <<"catch", 0>>)
  /\ UNCHANGED <<offPipeline, route, request, timedOut, gIdx, gPending, iIdx, listening, inner,
                 slotPos, slotVal, handlerCalls, handlerArgs, notif, yielded,
                 discarded>>

\* The exceptions layer: the exception of a guard, or the error the
\* outermost stream delivered, goes to the first filter bound to it.
Translate ==
  /\ \/ stage = "translate"
     \/ stage = "post" /\ iIdx = 0 /\ IsErr(notif)
  /\ outcome' = Catch(SelectFilter(FilterOrder(route.filters), notif.val), notif.val)
  /\ responses' = responses + 1
  /\ stage' = "done"
  /\ log' = Append(log, <<"catch", 0>>)
  /\ UNCHANGED <<offPipeline, route, request, timedOut, gIdx, gPending, iIdx, listening, inner,
                 slotPos, slotVal, handlerCalls, handlerArgs, notif, yielded,
                 discarded>>

Next ==
  \/ GuardStart
  \/ GuardResolve
  \/ GuardsPassed
  \/ Intercept
  \/ Handle
  \/ \E s \in ReadySlots : PipeStep(s)
  \/ CallHandler
  \/ \E b \in HandlerBehaviours : HandlerSettle(b)
  \/ \E k \in 1..NInterceptors : TimeoutFires(k)
  \/ Post
  \/ Respond
  \/ Translate

Spec == Init /\ [][Next]_vars

\* Requests to routes with an interceptor that calls next.handle() twice.
InitUsage == Arrival(UsageCases) /\ EmptyStore

NextUsage == Next \/ ProceedAgain

SpecUsage == InitUsage /\ [][NextUsage]_vars

\* ----------------------------------------------------------- metadata store

\* The routes the controllers declare: method and path.
RouteIds == {"GET cats", "POST cats", "GET cats/:id"}

\* The descriptors a route may be registered with.
Descriptors ==
  {Route(<< >>, NoRoles, << >>, << >>, NoFilters),
   Route(<<"AuthGuard", "RolesGuard">>, Roles(<<"admin">>), << >>, << >>, NoFilters),
   Route(<< >>, NoRoles, <<"LoggingInterceptor">>, << <<"ParseIntPipe">> >>,
         Filters(<<"HttpExceptionFilter">>, << >>, << >>))}

\* A store in which a later registration replaces an earlier one.
registerOverwrites(routeId, descriptor) ==
  /\ Len(registrations) < MaxRegistrations
  /\ registrations' = Append(registrations, <<routeId, descriptor>>)
  /\ store' = [r \in DOMAIN store \cup {routeId} |->
                 IF r = routeId THEN descriptor ELSE store[r]]
  /\ lastOp' = [op |-> "register", routeId |-> routeId, given |-> descriptor,
                status |-> "ok", found |-> NoDescriptor]
  /\ UNCHANGED <<pipelineVars, inflight, providerVars, served>>

\* register(routeId, descriptor): fails with DuplicateRoute when routeId is
\* present and leaves the store as it is; otherwise stores the descriptor.
register(routeId, descriptor) ==
  /\ Len(registrations) < MaxRegistrations
  /\ registrations' = Append(registrations, <<routeId, descriptor>>)
  /\ IF routeId \in DOMAIN store
     THEN /\ UNCHANGED store
          /\ lastOp' = [op |-> "register", routeId |-> routeId,
                        given |-> descriptor, status |-> "DuplicateRoute",
                        found |-> NoDescriptor]
     ELSE /\ store' = [r \in DOMAIN store \cup {routeId} |->
                         IF r = routeId THEN descriptor ELSE store[r]]
          /\ lastOp' = [op |-> "register", routeId |-> routeId,
                        given |-> descriptor, status |-> "ok",
                        found |-> NoDescriptor]
  /\ UNCHANGED <<pipelineVars, inflight, providerVars, served>>

\* A lookup that answers an unknown routeId with a default descriptor.
lookupDefault(routeId) ==
  /\ lastOp' = [op |-> "lookup", routeId |-> routeId, given |-> NoDescriptor,
                status |-> "ok",
                found |-> IF routeId \in DOMAIN store THEN store[routeId]
                          ELSE Route(<< >>, NoRoles, << >>, << >>, NoFilters)]
  /\ UNCHANGED <<pipelineVars, store, registrations, inflight, providerVars, served>>

\* lookup(routeId): the descriptor stored under routeId, or RouteNotFound.
lookup(routeId) ==
  /\ lastOp' = IF routeId \in DOMAIN store
                THEN [op |-> "lookup", routeId |-> routeId,
                      given |-> NoDescriptor, status |-> "ok",
                      found |-> store[routeId]]
                ELSE [op |-> "lookup", routeId |-> routeId,
                      given |-> NoDescriptor, status |-> "RouteNotFound",
                      found |-> NoDescriptor]
  /\ UNCHANGED <<pipelineVars, store, registrations, inflight, providerVars, served>>

\* A request that stays where it arrived while the store is set up and read.
QuietCases ==
  {<<Route(<< >>, NoRoles, << >>, << >>, NoFilters),
     Request("admin", "absent", << >>)>>}

InitStore == Arrival(QuietCases) /\ EmptyStore

NextStore ==
  \/ \E routeId \in RouteIds : \E descriptor \in Descriptors :
       register(routeId, descriptor)
  \/ \E routeId \in RouteIds : lookup(routeId)

SpecStore == InitStore /\ [][NextStore]_vars

\* ------------------------------------------------------ concurrent requests

Invocations == 1..MaxInflight

\* The routes of the requests in flight: behind RolesGuard2 with or without
\* roles metadata, or behind AuthGuard.
GuardedRoutes ==
  {Route(<<"RolesGuard2">>, Roles(<<"admin">>), << >>, << >>, NoFilters),
   Route(<<"RolesGuard2">>, NoRoles, << >>, << >>, NoFilters),
   Route(<<"AuthGuard">>, NoRoles, << >>, << >>, NoFilters)}

\* A request in flight: its route, its request object, the user the
\* authentication layer finds for it, how far it is, what its guard
\* answered and the user its handler was given.
Inflight(rt, req, principal) ==
  [route |-> rt, request |-> req, principal |-> principal, pc |-> "arrived",
   decision |-> Undefined, seen |-> ""]

\* An execution context that hands out the request of another invocation.
getRequestShared(i) == inflight[(i % MaxInflight) + 1].request

\* ctx.switchToHttp().getRequest() in the execution context of invocation i.
getRequest(i) == inflight[i].request

\* @User(): request.user of the execution context.
User(i) == getRequest(i).user

\* The authentication layer attaches the user to the request object of
\* invocation i.
Authenticate(i) ==
  /\ inflight[i].pc = "arrived"
  /\ inflight' = [inflight EXCEPT ![i].request.user = inflight[i].principal,
                                  ![i].pc = "authenticated"]
  /\ UNCHANGED <<pipelineVars, store, registrations, lastOp, providerVars, served>>

\* The guard of invocation i decides on the request of its execution context.
Activate(i) ==
  /\ inflight[i].pc = "authenticated"
  /\ LET r == canActivate(inflight[i].route.guards[1], inflight[i].route,
                          getRequest(i))
     IN inflight' = [inflight EXCEPT ![i].decision = r,
                                     ![i].pc = IF r = Bool(TRUE) THEN "guarded"
                                               ELSE "denied"]
  /\ UNCHANGED <<pipelineVars, store, registrations, lastOp, providerVars, served>>

\* The handler of invocation i is called with @User().
Invoke(i) ==
  /\ inflight[i].pc = "guarded"
  /\ inflight' = [inflight EXCEPT ![i].seen = User(i), ![i].pc = "handled"]
  /\ UNCHANGED <<pipelineVars, store, registrations, lastOp, providerVars, served>>

InitConcurrent ==
  /\ Arrival(QuietCases)
  /\ store = << >>
  /\ registrations = << >>
  /\ lastOp = NoOp
  /\ Idle
  /\ inflight \in [Invocations ->
                     {Inflight(rt, Request(b, "absent", << >>), u) :
                        rt \in GuardedRoutes, b \in BodyUsers,
                        u \in {"admin", "user"}}]

NextConcurrent ==
  \/ \E i \in Invocations : Authenticate(i)
  \/ \E i \in Invocations : Activate(i)
  \/ \E i \in Invocations : Invoke(i)

SpecConcurrent == InitConcurrent /\ [][NextConcurrent]_vars

\* The request is answered and handle() is idle or has settled.
Quiescent == stage = "done" /\ inner \in {"idle", "settled"}

TypeOK ==
  /\ stage \in {"guards", "intercept", "waiting", "post", "translate", "done"}
  /\ inner \in {"idle", "pipes", "running", "settled"}
  /\ gIdx \in 1..(NGuards + 1)
  /\ iIdx \in 0..(NInterceptors + 1)
  /\ handlerCalls \in 0..1
  /\ responses \in 0..2
  /\ outcome.type \in {"None", "Success", "Failure"}

\* ------------------------------------------------------- claim vocabulary

\* What guard i of the route returns or throws for the request.
GuardAnswer(i) == canActivate(route.guards[i], route, request)

EveryGuardTrue == \A i \in 1..NGuards : GuardAnswer(i) = Bool(TRUE)

\* Guard i is the first guard that does not return true.
FirstRefusal(i) ==
  /\ i \in 1..NGuards
  /\ GuardAnswer(i) # Bool(TRUE)
  /\ \A j \in 1..(i - 1) : GuardAnswer(j) = Bool(TRUE)

\* The value a slot's pipes make of an input, or the first exception.
RECURSIVE ApplyPipes(_, _)
ApplyPipes(pipes, value) ==
  IF pipes = << >> \/ IsErr(value) THEN value
  ELSE ApplyPipes(Tail(pipes), Transform(Head(pipes), value))

EveryPipeSucceeds ==
  \A s \in 1..NSlots : ~IsErr(ApplyPipes(route.slots[s], request.params[s]))

\* A pipe has thrown in this run.
PipeFailed == \E s \in 1..NSlots : IsErr(slotVal[s])

Declares(ic) == \E i \in 1..NInterceptors : route.interceptors[i] = ic

\* Interceptor k is a CacheInterceptor and no interceptor declared before it is.
FirstCache(k) ==
  /\ k \in 1..NInterceptors
  /\ route.interceptors[k] = "CacheInterceptor"
  /\ \A j \in 1..(k - 1) : route.interceptors[j] # "CacheInterceptor"

Logged(e) == \E p \in DOMAIN log : log[p] = e

\* ---------------------------------------------------------------------- C1

\* C1: every run of the pipeline ends with exactly one outcome.  At most one
\* response is ever written, none is written without an outcome, a finished
\* run has written exactly one Success or Failure, and a run that has not
\* finished can always take a step (it never stops with no outcome); this
\* also covers a refusing guard, a failing pipe, a short-circuiting
\* interceptor, a timeout and a throwing handler.
C1_ExactlyOneOutcome ==
  /\ responses <= 1
  /\ (responses = 0) <=> (outcome.type = "None")
  /\ stage = "done" => responses = 1 /\ outcome.type \in {"Success", "Failure"}
  /\ stage # "done" => ENABLED Next

\* A timeout answered the request and the handler's late result was dropped.
C1_Witness ==
  /\ Quiescent
  /\ discarded = 1
  /\ handlerCalls = 1
  /\ responses = 1
  /\ outcome.kind = "Timeout"

\* ---------------------------------------------------------------------- C2

\* C2 as stated: whenever every guard evaluates true, the handler is invoked
\* exactly once.
C2_Original == (Quiescent /\ EveryGuardTrue) => handlerCalls = 1

\* C2, amended: when every guard evaluates true the handler is invoked at
\* most once, and exactly once when in addition no interceptor of the route
\* returns without calling next.handle() and every pipe of every slot
\* succeeds.
C2_HandlerOnce ==
  /\ handlerCalls <= 1
  /\ (Quiescent /\ EveryGuardTrue /\ ~Declares("CacheInterceptor") /\ EveryPipeSucceeds)
       => handlerCalls = 1

\* Two guards that return true, no short-circuiting interceptor and a pipe
\* that succeeds: the handler ran once.
C2_Witness ==
  /\ Quiescent
  /\ NGuards = 2
  /\ EveryGuardTrue
  /\ ~Declares("CacheInterceptor")
  /\ NSlots = 1
  /\ handlerCalls = 1

\* ---------------------------------------------------------------------- C3

\* C3: when a guard evaluates false the handler is never invoked, and when
\* the first guard that does not return true returns false (no guard raised
\* an error of its own) the outcome is the Forbidden failure.
C3_GuardFalseForbidden ==
  /\ (\E i \in 1..NGuards : GuardAnswer(i) = Bool(FALSE)) => handlerCalls = 0
  /\ \A i \in 1..NGuards :
       (stage = "done" /\ FirstRefusal(i) /\ GuardAnswer(i) = Bool(FALSE))
         => /\ outcome.type = "Failure"
            /\ outcome.kind = "Forbidden"
            /\ handlerCalls = 0

\* The second guard returned false after the first returned true.
C3_Witness ==
  /\ stage = "done"
  /\ FirstRefusal(2)
  /\ GuardAnswer(2) = Bool(FALSE)
  /\ outcome.kind = "Forbidden"

\* ---------------------------------------------------------------------- C4

IsGuardEntry(e) == e[1] \in {"canActivate", "resolved"}

\* The guard calls of the run, in order.
GuardLog == SelectSeq(log, IsGuardEntry)

\* C4: the guards of a request are evaluated one at a time in declaration
\* order.  The guard calls of a run are canActivate(1), its resolution,
\* canActivate(2), its resolution, ...: guard i+1 is not called before guard
\* i has resolved, and a guard is only called when every guard before it
\* returned true, so a false result of guard i keeps guards i+1..n from
\* being evaluated.
C4_GuardsInOrder ==
  /\ \A p \in DOMAIN GuardLog :
       GuardLog[p] = IF p % 2 = 1 THEN <<"canActivate", (p + 1) \div 2>>
                     ELSE <<"resolved", p \div 2>>
  /\ \A i \in 1..NGuards :
       Logged(<<"canActivate", i>>)
         => \A j \in 1..(i - 1) : GuardAnswer(j) = Bool(TRUE)
  /\ gPending => GuardLog[Len(GuardLog)] = <<"canActivate", gIdx>>

\* Of two guards the first returned false, and the second was never called.
C4_Witness ==
  /\ stage = "done"
  /\ NGuards = 2
  /\ GuardAnswer(1) = Bool(FALSE)
  /\ GuardLog = << <<"canActivate", 1>>, <<"resolved", 1>> >>

\* ---------------------------------------------------------------------- C5

\* C5: when the first guard that does not return true raises an error, the
\* handler is never invoked, the exceptions layer receives that very error,
\* and the outcome is not the generic Forbidden: a guard that throws
\* UnauthorizedException gives the Unauthorized failure.
C5_GuardErrorKeepsKind ==
  \A i \in 1..NGuards :
    /\ (FirstRefusal(i) /\ IsErr(GuardAnswer(i))) => handlerCalls = 0
    /\ (stage = "done" /\ FirstRefusal(i) /\ IsErr(GuardAnswer(i)))
         => /\ notif = GuardAnswer(i)
            /\ outcome.type = "Failure"
            /\ outcome.kind # "Forbidden"
    /\ (stage = "done" /\ route.guards[i] = "UnauthorizedGuard"
          /\ \A j \in 1..(i - 1) : GuardAnswer(j) = Bool(TRUE))
         => outcome.kind = "Unauthorized" /\ handlerCalls = 0

\* The second guard threw UnauthorizedException after the first returned true.
C5_Witness ==
  /\ stage = "done"
  /\ NGuards = 2
  /\ FirstRefusal(2)
  /\ GuardAnswer(2) = Err("UnauthorizedException")
  /\ outcome.kind = "Unauthorized"

\* ---------------------------------------------------------------------- C6

InterceptRan == \E i \in 1..NInterceptors : Logged(<<"intercept", i>>)

PipeRan == \E s \in 1..NSlots : slotPos[s] > 1

AllPipesDone ==
  \A s \in 1..NSlots : slotPos[s] > Len(route.slots[s]) /\ ~IsErr(slotVal[s])

DefaultThenParse == <<"DefaultValuePipe5", "ParseIntPipe">>

\* C7: a slot with the pipes [default(5), parseInt] turns an absent input
\* into 5 and the input "7" into 7, and these reach the handler; for the
\* input "x" the slot ends in a bad-request exception, the handler is not
\* called and the outcome, with no interceptor on the route, is
\* ValidationFailed.
C7_DefaultThenParse ==
  \A s \in 1..NSlots :
    route.slots[s] = DefaultThenParse
      => /\ (request.params[s] = Undefined /\ slotPos[s] = 3) => slotVal[s] = Num(5)
         /\ (request.params[s] = Str(<<"7">>) /\ slotPos[s] = 3) => slotVal[s] = Num(7)
         /\ (request.params[s] = Undefined /\ handlerCalls = 1) => handlerArgs[s] = Num(5)
         /\ (request.params[s] = Str(<<"7">>) /\ handlerCalls = 1) => handlerArgs[s] = Num(7)
         /\ request.params[s] = Str(<<"x">>)
              => /\ handlerCalls = 0
                 /\ slotPos[s] = 3 => slotVal[s] = Err("BadRequestException")
                 /\ (stage = "done" /\ NInterceptors = 0 /\ EveryGuardTrue)
                      => outcome.kind = "ValidationFailed"

\* The handler was called with 5 for an absent input and 7 for "7".
C7_Witness ==
  /\ handlerCalls = 1
  /\ route.slots = <<DefaultThenParse, DefaultThenParse>>
  /\ request.params = <<Undefined, Str(<<"7">>)>>
  /\ handlerArgs = <<Num(5), Num(7)>>

\* ---------------------------------------------------------------------- C8

RECURSIVE OuterPost(_, _)
OuterPost(i, v) ==
  IF i = 0 THEN v ELSE OuterPost(i - 1, PostLogic(route.interceptors[i], v))

\* C9 as stated: with an interceptor that does not call next.handle() the
\* handler is never invoked and the outcome is that interceptor's own value.
C9_Original ==
  \A k \in 1..NInterceptors :
    FirstCache(k)
      => /\ handlerCalls = 0
         /\ (stage = "done" /\ EveryGuardTrue) => outcome = Success(EmptyArray)

\* C9, amended: with an interceptor that does not call next.handle() the
\* handler is never invoked, and the outcome is that interceptor's own value
\* as the interceptors declared before it post-process it: the value itself
\* when it is declared first, { data: value } under a TransformInterceptor.
C9_ShortCircuit ==
  \A k \in 1..NInterceptors :
    FirstCache(k)
      => /\ handlerCalls = 0
         /\ inner = "idle"
         /\ (stage = "done" /\ EveryGuardTrue)
              => /\ yielded[k] = EmptyArray
                 /\ outcome = Success(OuterPost(k - 1, EmptyArray))
                 /\ k = 1 => outcome = Success(EmptyArray)
                 /\ (k = 2 /\ route.interceptors[1] = "TransformInterceptor")
                      => outcome = Success(DataObject(EmptyArray))

\* A CacheInterceptor under a TransformInterceptor answered the request.
C9_Witness ==
  /\ stage = "done"
  /\ route.interceptors = <<"TransformInterceptor", "CacheInterceptor">>
  /\ handlerCalls = 0
  /\ outcome = Success(DataObject(EmptyArray))

\* --------------------------------------------------------------------- C10

\* C10 as stated: whenever the deadline of a TimeoutInterceptor passed before
\* handle() produced anything, the one response is the Timeout failure.
\* Refuted by a route declaring ErrorsInterceptor before TimeoutInterceptor:
\* its catchError replaces RequestTimeoutException by BadGatewayException.
C10_Original ==
  (timedOut # 0 /\ stage = "done")
    => /\ responses = 1
       /\ outcome.kind = "Timeout"

\* C10: once the deadline of a TimeoutInterceptor has passed before
\* handle() produced anything, that interceptor delivers
\* RequestTimeoutException and stops listening.  The handler is not stopped,
\* but what it produces later is dropped: the one response is a Failure,
\* never the handler's value, and it is the Timeout failure unless an
\* ErrorsInterceptor declared before the TimeoutInterceptor replaces it.
C10_TimeoutWins ==
  timedOut # 0
    => /\ route.interceptors[timedOut] = "TimeoutInterceptor"
       /\ ~listening
       /\ yielded[timedOut] \in {NoNotif, Err("RequestTimeoutException")}
       /\ inner = "settled" => discarded = 1
       /\ responses <= 1
       /\ stage = "done"
            => /\ responses = 1
               /\ outcome.type = "Failure"
               /\ yielded[timedOut] = Err("RequestTimeoutException")
               /\ (\A j \in 1..(timedOut - 1) : route.interceptors[j] # "ErrorsInterceptor")
                    => outcome.kind = "Timeout"

\* The deadline passed while the handler was running; the handler returned
\* afterwards and the response stayed the Timeout failure.
C10_Witness ==
  /\ timedOut = 1
  /\ stage = "done"
  /\ inner = "settled"
  /\ handlerCalls = 1
  /\ ~PipeFailed
  /\ discarded = 1
  /\ outcome.kind = "Timeout"

\* --------------------------------------------------------------------- C12

\* The exceptions the @Catch() of a filter names; none means every exception.
MatchedKinds(filter) ==
  IF filter = "HttpExceptionFilter" THEN HttpExceptions ELSE {}

Matches(filter, e) == MatchedKinds(filter) = {} \/ e \in MatchedKinds(filter)

\* The request was answered by the exceptions layer.
Translated == stage = "done" /\ outcome.type = "Failure"

\* The positions, in method, controller, global order, of the filters of the
\* route that match the translated exception.
MatchingFilters ==
  LET fs == route.filters.method \o route.filters.controller \o route.filters.global
  IN {i \in 1..Len(fs) : Matches(fs[i], notif.val)}

\* C12: a failure is answered by the first filter, method-scoped before
\* controller-scoped before global and in declared order within a scope,
\* whose @Catch() names the exception or names nothing; with no such filter
\* the built-in filter answers.  A filter bound to HttpException never
\* answers an exception that is no HttpException.
C12_FirstMatchingFilter ==
  Translated
    => LET fs == route.filters.method \o route.filters.controller \o route.filters.global
       IN /\ MatchingFilters = {} => outcome.by = "BaseExceptionFilter"
          /\ MatchingFilters # {}
               => \E i \in MatchingFilters :
                    /\ \A j \in MatchingFilters : i <= j
                    /\ outcome.by = fs[i]
          /\ outcome.by = "HttpExceptionFilter" => notif.val \in HttpExceptions

\* The handler threw an error that is no HttpException: the method-scoped
\* HttpExceptionFilter was passed over and the global catch-all answered.
C12_Witness ==
  /\ Translated
  /\ route.filters.method = <<"HttpExceptionFilter">>
  /\ route.filters.controller = << >>
  /\ route.filters.global = <<"AllExceptionsFilter">>
  /\ handlerCalls = 1
  /\ notif.val = "Error"
  /\ outcome.by = "AllExceptionsFilter"

\* --------------------------------------------------------------------- C13

\* The exceptions the built-in filter recognizes: HttpException and its
\* subclasses, and errors carrying statusCode and message.
Recognized(e) == e \in HttpExceptions \cup HttpErrors

\* C13: when no filter of the route matches a translated exception and the
\* built-in filter does not recognize it, the response is the generic
\* InternalError: 'Internal Server Error', with no value and nothing of the
\* exception's own message.
C13_DefaultInternalError ==
  (Translated /\ MatchingFilters = {} /\ ~Recognized(notif.val))
    => /\ outcome.kind = "InternalError"
       /\ outcome.message = "Internal Server Error"
       /\ outcome.message # getMessage(notif.val)
       /\ outcome.value = Undefined
       /\ outcome.by = "BaseExceptionFilter"

\* The handler threw a plain Error on a route whose only filter is bound to
\* HttpException.
C13_Witness ==
  /\ Translated
  /\ route.filters = Filters(<<"HttpExceptionFilter">>, << >>, << >>)
  /\ handlerCalls = 1
  /\ notif.val = "Error"
  /\ outcome.kind = "InternalError"
  /\ outcome.message = "Internal Server Error"

\* --------------------------------------------------------------------- C14

\* The positions of the log at which the exceptions layer caught something.
Catches14 == {p \in DOMAIN log : log[p][1] = "catch"}

\* C14: the exceptions layer catches at most once per request; the response
\* is a Failure exactly when it caught, and it is then what the selected
\* filter makes of the exception raised by a guard or delivered by the
\* outermost interceptor stream.  Every exception that leaves the guards or
\* the interceptors is caught, and after the catch no guard, interceptor or
\* filter runs again.
C14_TranslatedOnce ==
  /\ Cardinality(Catches14) <= 1
  /\ outcome.type = "Failure" <=> Cardinality(Catches14) = 1
  /\ \A p \in Catches14 :
       /\ stage = "done"
       /\ responses = 1
       /\ IsErr(notif)
       /\ outcome = Catch(outcome.by, notif.val)
       /\ \A q \in DOMAIN log : q > p => log[q][1] \in {"handler", "threw"}
  /\ (stage = "done" /\ IsErr(notif)) => Cardinality(Catches14) = 1

\* The handler threw; its exception came back through the interceptors and
\* was caught once.
C14_Witness ==
  /\ Cardinality(Catches14) = 1
  /\ timedOut = 0
  /\ handlerCalls = 1
  /\ NInterceptors >= 1
  /\ notif = Err("Error")
  /\ outcome.kind = "InternalError"

\* --------------------------------------------------------------------- C15

IsInterceptEntry(e) == e[1] = "intercept"

IsPostEntry(e) == e[1] = "post"

\* The intercept() calls and the runs of the interceptors' operators, in the
\* order they happened.
PreLog == SelectSeq(log, IsInterceptEntry)

PostLog == SelectSeq(log, IsPostEntry)

\* The positions of the log at which the route handler was called.
HandlerEntries == {p \in DOMAIN log : log[p][1] = "handler"}

\* C15: intercept() of the interceptors runs in declared order, each one
\* only after the one declared before it called next.handle(), and all of
\* them before the route handler, which is called at most once.  The
\* operators of the interceptors run in reverse declared order, each
\* interceptor's after its own intercept(), and each sees what the
\* interceptor declared after it delivered; the first declared interceptor
\* delivers the response.  Unless a timeout has fired the operators run after
\* the handler was called.
C15_NestingOrder ==
  /\ \A j \in 1..Len(PreLog) :
       /\ PreLog[j][2] = j
       /\ j > 1 => route.interceptors[j - 1] # "CacheInterceptor"
  /\ \A j \in 1..(Len(PostLog) - 1) : PostLog[j + 1][2] = PostLog[j][2] - 1
  /\ \A p \in DOMAIN log :
       IsPostEntry(log[p])
         => \E q \in 1..(p - 1) : log[q] = <<"intercept", log[p][2]>>
  /\ Cardinality(HandlerEntries) <= 1
  /\ \A p \in HandlerEntries :
       /\ Len(PreLog) = NInterceptors
       /\ \A q \in DOMAIN log : IsInterceptEntry(log[q]) => q < p
       /\ timedOut = 0 => \A q \in DOMAIN log : IsPostEntry(log[q]) => q > p
  /\ \A i \in 1..(NInterceptors - 1) :
       (yielded[i] # NoNotif /\ yielded[i + 1] # NoNotif)
         => yielded[i] = PostLogic(route.interceptors[i], yielded[i + 1])
  /\ (stage = "done" /\ outcome.type = "Success" /\ NInterceptors >= 1
        /\ yielded[1] # NoNotif)
       => outcome.value = yielded[1]

\* TransformInterceptor declared before ExcludeNullInterceptor around a
\* handler returning null: intercept 1, intercept 2, handler, operators of 2
\* (null becomes ''), operators of 1 ('' becomes { data: '' }).
C15_Witness ==
  /\ stage = "done"
  /\ route.interceptors = <<"TransformInterceptor", "ExcludeNullInterceptor">>
  /\ route.guards = << >>
  /\ log = << <<"intercept", 1>>, <<"intercept", 2>>, <<"handler", 0>>,
              <<"post", 2>>, <<"post", 1>> >>
  /\ outcome = Success(DataObject(EmptyString))

\* --------------------------------------------------------------------- C16

\* Interceptor k called next.handle() a second time.
ProceededAgain(k) == \E p \in DOMAIN log : log[p] = <<"again", k>>

\* C16: an interceptor that calls next.handle() a second time in a request
\* fails with InvalidInterceptorUsage, which is what it delivers, and the
\* request is answered with a Failure; the route handler is called at most
\* once in the request.
C16_SecondProceedFails ==
  /\ handlerCalls <= 1
  /\ Cardinality(HandlerEntries) <= 1
  /\ \A k \in 1..NInterceptors :
       ProceededAgain(k)
         => /\ yielded[k] = Err("InvalidInterceptorUsage")
            /\ stage = "done" => outcome.type = "Failure"

\* The handler ran once and returned; the interceptor called next.handle()
\* again and the request failed.
C16_Witness ==
  /\ stage = "done"
  /\ route.interceptors = <<ProceedTwice>>
  /\ ProceededAgain(1)
  /\ handlerCalls = 1
  /\ timedOut = 0
  /\ outcome.kind = "InternalError"

\* --------------------------------------------------------------------- C19

\* What the first n pipes of a list make of an input, each applied to the
\* output of the one before it.
RECURSIVE PipesSoFar(_, _, _)
PipesSoFar(pipes, value, n) ==
  IF n = 0 THEN value ELSE Transform(pipes[n], PipesSoFar(pipes, value, n - 1))

\* C19: at every point of every interleaving of the slots, the value of a
\* slot is what the pipes of that slot that have run so far, taken in
\* declared order and each applied to the output of the one before it, make
\* of that slot's own input; no pipe is handed an exception; and the handler
\* receives for each slot what the slot's whole pipe list makes of its input.
C19_SlotSequential ==
  \A s \in 1..NSlots :
    /\ slotPos[s] \in 1..(Len(route.slots[s]) + 1)
    /\ slotVal[s] = PipesSoFar(route.slots[s], request.params[s], slotPos[s] - 1)
    /\ \A n \in 0..(slotPos[s] - 2) :
         ~IsErr(PipesSoFar(route.slots[s], request.params[s], n))
    /\ handlerCalls = 1
         => handlerArgs[s]
              = PipesSoFar(route.slots[s], request.params[s], Len(route.slots[s]))

\* Two slots of two pipes each: the missing first input became 5, the second
\* input "42" became the user entity of 42.
C19_Witness ==
  /\ NSlots = 2
  /\ route.slots[1] = <<"DefaultValuePipe5", "ParseIntPipe">>
  /\ route.slots[2] = <<"ParseIntPipe", "UserByIdPipe">>
  /\ request.params = <<Undefined, Str(<<"4", "2">>)>>
  /\ handlerCalls = 1
  /\ handlerArgs = <<Num(5), UserEntity(Num(42))>>

\* --------------------------------------------------------------------- C20

\* The slots whose pipes reject the slot's input.
FailingSlots ==
  {s \in 1..NSlots : IsErr(ApplyPipes(route.slots[s], request.params[s]))}

\* The slots in which a pipe has thrown in this run.
FailedSlots == {s \in 1..NSlots : IsErr(slotVal[s])}

\* C20 as stated: when the pipes of two or more slots reject their inputs,
\* the one response is ValidationFailed with the message of the first of
\* those slots, whatever the order in which the slots' pipes ran.  Refuted by
\* a run in which the pipe of a later slot throws first.
C20_Original ==
  (stage = "done" /\ PipeFailed /\ Cardinality(FailingSlots) >= 2
     /\ NInterceptors = 0 /\ outcome.by = "BaseExceptionFilter")
    => /\ responses = 1
       /\ outcome.kind = "ValidationFailed"
       /\ \E s \in FailingSlots :
            /\ \A u \in FailingSlots : s <= u
            /\ outcome.message
                 = getMessage(ApplyPipes(route.slots[s], request.params[s]).val)

\* C20, amended: a pipe throws in at most one slot of a run, after which no
\* pipe of any slot runs and the handler is not called; the one response is
\* a Failure and, unless an ErrorsInterceptor replaced the exception or a
\* timeout came first, it is the ValidationFailed the filter makes of the
\* exception of the slot whose pipe threw first in time.  Which slot that is
\* depends on the order in which the slots' pipes ran.
C20_FailFast ==
  /\ Cardinality(FailedSlots) <= 1
  /\ PipeFailed => handlerCalls = 0 /\ inner = "settled"
  /\ (stage = "done" /\ PipeFailed)
       => /\ responses = 1
          /\ outcome.type = "Failure"
  /\ (stage = "done" /\ PipeFailed /\ timedOut = 0 /\ ~Declares("ErrorsInterceptor"))
       => \A s \in FailedSlots :
            /\ s \in FailingSlots
            /\ outcome.kind = "ValidationFailed"
            /\ outcome = Catch(outcome.by, slotVal[s].val)

\* Both slots reject their inputs; the pipe of the second slot threw first
\* and the response carries its message, not the first slot's.
C20_Witness ==
  /\ stage = "done"
  /\ route.slots = << <<"ParseIntPipe">>, <<"NestParseIntPipe">> >>
  /\ FailingSlots = {1, 2}
  /\ FailedSlots = {2}
  /\ slotPos[1] = 1
  /\ handlerCalls = 0
  /\ outcome.kind = "ValidationFailed"
  /\ outcome.message = "Validation Failed (numeric string is expected)"

\* --------------------------------------------------------------------- C11

\* The register() calls for a routeId, as positions of the call history.
RegistrationsOf(routeId) ==
  {p \in DOMAIN registrations : registrations[p][1] = routeId}

\* The descriptor given in the first register() call for a routeId.
FirstGiven(routeId) ==
  registrations[CHOOSE p \in RegistrationsOf(routeId) :
                  \A q \in RegistrationsOf(routeId) : p <= q][2]

\* C11: a register() under a routeId registered before fails with
\* DuplicateRoute, and the store still holds, for every routeId, the
\* descriptor of the first registration, which is what a lookup returns.
C11_DuplicateRoute ==
  /\ DOMAIN store = {r \in RouteIds : RegistrationsOf(r) # {}}
  /\ \A r \in DOMAIN store : store[r] = FirstGiven(r)
  /\ lastOp.op = "register"
       => LET n == Len(registrations)
          IN /\ registrations[n] = <<lastOp.routeId, lastOp.given>>
             /\ lastOp.status = "DuplicateRoute"
                  <=> \E q \in RegistrationsOf(lastOp.routeId) : q < n
             /\ lastOp.status \in {"ok", "DuplicateRoute"}
  /\ (lastOp.op = "lookup" /\ Cardinality(RegistrationsOf(lastOp.routeId)) >= 2)
       => lastOp.found = FirstGiven(lastOp.routeId)

\* A second registration of a routeId with another descriptor was refused
\* and the first descriptor is still stored.
C11_Witness ==
  /\ lastOp.op = "register"
  /\ lastOp.status = "DuplicateRoute"
  /\ lastOp.routeId \in DOMAIN store
  /\ store[lastOp.routeId] # lastOp.given
  /\ store[lastOp.routeId] = FirstGiven(lastOp.routeId)

\* --------------------------------------------------------------------- C18

\* C18: a lookup of a routeId no register() call was ever made for fails
\* with RouteNotFound and returns no descriptor; a lookup of a registered
\* routeId returns the descriptor given when it was registered.
C18_Lookup ==
  lastOp.op = "lookup"
    => IF RegistrationsOf(lastOp.routeId) = {}
       THEN lastOp.status = "RouteNotFound" /\ lastOp.found = NoDescriptor
       ELSE lastOp.status = "ok" /\ lastOp.found = FirstGiven(lastOp.routeId)

\* A routeId was looked up while only other routeIds were registered.
C18_Witness ==
  /\ lastOp.op = "lookup"
  /\ lastOp.status = "RouteNotFound"
  /\ store # << >>
  /\ lastOp.routeId \notin DOMAIN store

\* --------------------------------------------------------------------- C17

\* What the guard of invocation i answers for that invocation's own request,
\* carrying the user its own authentication found.
OwnDecision(i) ==
  canActivate(inflight[i].route.guards[1], inflight[i].route,
              Request(inflight[i].request.bodyUser, inflight[i].principal,
                      inflight[i].request.params))

\* C17: under every interleaving of the requests in flight, the user
\* attached to a request is the one its own authentication found, the guard
\* of an invocation answers what it answers for that invocation's own request
\* and route metadata, and the handler is given the invocation's own user.
C17_ContextIsolation ==
  \A i \in DOMAIN inflight :
    /\ inflight[i].request.user \in {"absent", inflight[i].principal}
    /\ inflight[i].pc = "arrived" <=> inflight[i].request.user = "absent"
    /\ inflight[i].pc \in {"guarded", "denied", "handled"}
         => inflight[i].decision = OwnDecision(i)
    /\ inflight[i].pc \in {"guarded", "handled"}
         => inflight[i].decision = Bool(TRUE)
    /\ inflight[i].pc = "handled" => inflight[i].seen = inflight[i].principal

\* Two requests to the same admin-only route in flight together: the admin's
\* was handled with the admin as user, the other user's was denied.
C17_Witness ==
  /\ DOMAIN inflight = Invocations
  /\ inflight[1].route = inflight[2].route
  /\ inflight[1].route.roles = Roles(<<"admin">>)
  /\ inflight[1].principal = "admin"
  /\ inflight[2].principal = "user"
  /\ inflight[1].pc = "handled"
  /\ inflight[1].seen = "admin"
  /\ inflight[2].pc = "denied"
  /\ inflight[2].decision = Bool(FALSE)

\* --------------------------------------------------------------------- C21

ParseThenDefault == <<"ParseIntPipe", "DefaultValuePipe5">>

\* C21: a DefaultValuePipe injects its default only for an absent input (any
\* other input leaves it as it came) and has to come before the Parse* pipe
\* of its slot.  With the pipes [parseInt, default(5)] an absent input makes
\* ParseIntPipe throw its bad-request exception (ValidationFailed): the
\* default pipe never runs, the handler is not called and the outcome, with
\* no interceptor on the route, is ValidationFailed, where [default(5),
\* parseInt] yields 5.
C21_DefaultFirst ==
  \A s \in 1..NSlots :
    /\ (route.slots[s] = DefaultThenParse /\ slotPos[s] = 2)
         => slotVal[s] = IF request.params[s] = Undefined THEN Num(5)
                         ELSE request.params[s]
    /\ (route.slots[s] = DefaultThenParse /\ request.params[s] = Undefined
          /\ slotPos[s] = 3)
         => slotVal[s] = Num(5)
    /\ (route.slots[s] = ParseThenDefault /\ request.params[s] = Undefined)
         => /\ slotPos[s] <= 2
            /\ slotPos[s] = 2
                 => /\ slotVal[s] = Err("BadRequestException")
                    /\ KindOfStatus(getStatus(slotVal[s].val)) = "ValidationFailed"
            /\ handlerCalls = 0
            /\ (stage = "done" /\ NInterceptors = 0 /\ EveryGuardTrue)
                 => /\ outcome.type = "Failure"
                    /\ outcome.kind = "ValidationFailed"
    /\ (route.slots[s] = ParseThenDefault /\ request.params[s] = Str(<<"7">>)
          /\ slotPos[s] = 3)
         => slotVal[s] = Num(7)

\* [parseInt, default(5)] got an absent input: ParseIntPipe threw, the
\* default pipe did not run and the request ended in ValidationFailed.
C21_Witness ==
  /\ stage = "done"
  /\ route.slots = <<ParseThenDefault>>
  /\ request.params = <<Undefined>>
  /\ slotPos = <<2>>
  /\ slotVal = <<Err("BadRequestException")>>
  /\ handlerCalls = 0
  /\ outcome.kind = "ValidationFailed"

\* ----------------------------------------------------------- ValidationPipe

\* The native JavaScript types ValidationPipe does not validate.
NativeTypes == {"String", "Boolean", "Number", "Array", "Object"}

\* The metatype of the argument being processed: none (undefined), a native
\* type, or the decorated class CreateCatDto2.
Metatypes == {"undefined", "CreateCatDto2"} \cup NativeTypes

\* What a property of a deserialized body may hold; Undefined is a missing
\* property.
PropertyValues == {Undefined, Str(<<"7">>), Num(7), NaN}

\* A plain object { name, age, breed }.
PlainObject(name, age, breed) ==
  [kind |-> "object", val |-> [name |-> name, age |-> age, breed |-> breed]]

\* The bodies a request may carry.
Bodies ==
  {PlainObject(n, a, b) :
     n \in PropertyValues, a \in PropertyValues, b \in PropertyValues}

\* The arguments transform() may be called with: a body for a parameter of a
\* class or of type Object, a string or nothing for a parameter of any other
\* type.
ValidationInputs ==
  {<<v, m>> \in (Bodies \cup {Undefined, Str(<<"7">>)}) \X Metatypes :
     /\ m = "CreateCatDto2" => v \in Bodies
     /\ v \in Bodies => m \in {"CreateCatDto2", "Object", "undefined"}}

\* A toValidate that sends every metatype to validation.
toValidateAll(metatype) == TRUE

\* ValidationPipe.toValidate
toValidate(metatype) == metatype \notin NativeTypes

\* plainToInstance(metatype, value): an instance of the class with the
\* properties of the plain object.
plainToInstance(metatype, value) ==
  [kind |-> "instance", class |-> metatype, val |-> value.val]

\* @IsString()
IsString(v) == v.kind = "string"

\* @IsInt()
IsInt(v) == v.kind = "number"

\* validate(object): the properties of the instance that break a decorator
\* of its class.  Only CreateCatDto2 carries decorators.
validate(object) ==
  IF object.class # "CreateCatDto2" THEN {}
  ELSE {p \in {"name", "breed"} : ~IsString(object.val[p])}
         \cup {p \in {"age"} : ~IsInt(object.val[p])}

\* transform(value, { metatype }) is called.
ValidationCall(value, metatype) ==
  [pc |-> "called", value |-> value, metatype |-> metatype,
   object |-> Undefined, validated |-> FALSE, errors |-> {},
   result |-> Undefined]

\* ValidationPipe.transform up to its await: an absent or native metatype
\* returns the value at once, any other metatype has the value instantiated
\* and validate() called on the instance.
ValidationPipeTransform ==
  /\ validation.pc = "called"
  /\ IF validation.metatype = "undefined" \/ ~toValidate(validation.metatype)
     THEN validation' = [validation EXCEPT !.pc = "returned",
                                           !.result = validation.value]
     ELSE LET object == plainToInstance(validation.metatype, validation.value)
          IN validation' = [validation EXCEPT !.pc = "validating",
                                              !.object = object,
                                              !.validated = TRUE,
                                              !.errors = validate(object)]
  /\ UNCHANGED <<pipelineVars, store, registrations, lastOp, inflight, cats,
                 catCalls, served>>

\* A transform that returns the instance it validated.
ValidationPipeResumeReturnsObject ==
  /\ validation.pc = "validating"
  /\ IF Cardinality(validation.errors) > 0
     THEN validation' = [validation EXCEPT !.pc = "thrown",
                                           !.result = Err("BadRequestException")]
     ELSE validation' = [validation EXCEPT !.pc = "returned",
                                           !.result = validation.object]
  /\ UNCHANGED <<pipelineVars, store, registrations, lastOp, inflight, cats,
                 catCalls, served>>

\* ValidationPipe.transform after validate() has resolved: any error throws
\* BadRequestException('Validation failed'), none returns the value.
ValidationPipeResume ==
  /\ validation.pc = "validating"
  /\ IF Cardinality(validation.errors) > 0
     THEN validation' = [validation EXCEPT !.pc = "thrown",
                                           !.result = Err("BadRequestException")]
     ELSE validation' = [validation EXCEPT !.pc = "returned",
                                           !.result = validation.value]
  /\ UNCHANGED <<pipelineVars, store, registrations, lastOp, inflight, cats,
                 catCalls, served>>

InitValidation ==
  /\ Arrival(QuietCases)
  /\ store = << >>
  /\ registrations = << >>
  /\ lastOp = NoOp
  /\ inflight = << >>
  /\ \E a \in ValidationInputs : validation = ValidationCall(a[1], a[2])
  /\ cats = << >>
  /\ catCalls = << >>
  /\ served = 0

NextValidation ==
  \/ ValidationPipeTransform
  \/ ValidationPipeResume

SpecValidation == InitValidation /\ [][NextValidation]_vars

\* --------------------------------------------------------------------- C22

\* C22: ValidationPipe.transform returns the value it was given without
\* running validation whenever the metatype is absent or one of String,
\* Boolean, Number, Array, Object; validation runs only for another
\* metatype, here the decorated class CreateCatDto2, and for it it does run.
C22_ToValidateBypass ==
  validation.pc \in {"validating", "returned", "thrown"}
    => /\ (validation.metatype \in {"undefined", "String", "Boolean", "Number",
                                    "Array", "Object"})
            => /\ ~validation.validated
               /\ validation.pc = "returned"
               /\ validation.result = validation.value
       /\ validation.validated => validation.metatype = "CreateCatDto2"
       /\ validation.metatype = "CreateCatDto2" => validation.validated

\* A body that would break CreateCatDto2's decorators came for a parameter of
\* type Object and was returned unvalidated.
C22_Witness ==
  /\ validation.pc = "returned"
  /\ validation.metatype = "Object"
  /\ validation.value = PlainObject(Undefined, Str(<<"7">>), Num(7))
  /\ ~validation.validated
  /\ validation.result = validation.value

\* --------------------------------------------------------------------- C23

\* The body satisfies the decorators of CreateCatDto2.
WellFormedCat(v) ==
  /\ v.kind = "object"
  /\ v.val.name.kind = "string"
  /\ v.val.age.kind = "number"
  /\ v.val.breed.kind = "string"

\* C23: a finished ValidationPipe.transform has either returned exactly the
\* value it was given, never the instance it made of it, or thrown
\* BadRequestException (400, ValidationFailed); it has thrown exactly when
\* validation ran and reported at least one error, that is when the
\* metatype is CreateCatDto2 and the body breaks one of its decorators.
C23_ValueOrBadRequest ==
  validation.pc \in {"returned", "thrown"}
    => /\ validation.pc = "returned"
            => /\ validation.result = validation.value
               /\ validation.result.kind # "instance"
       /\ validation.pc = "thrown"
            => /\ validation.result = Err("BadRequestException")
               /\ KindOfStatus(getStatus(validation.result.val)) = "ValidationFailed"
       /\ validation.pc = "thrown"
            <=> (validation.validated /\ validation.errors # {})
       /\ validation.pc = "thrown"
            <=> /\ validation.metatype = "CreateCatDto2"
                /\ ~WellFormedCat(validation.value)

\* A well-formed cat was validated and came back as the plain object it was.
C23_Witness ==
  /\ validation.pc = "returned"
  /\ validation.metatype = "CreateCatDto2"
  /\ validation.validated
  /\ validation.object.kind = "instance"
  /\ validation.value = PlainObject(Str(<<"7">>), Num(7), Str(<<"7">>))
  /\ validation.result = validation.value

\* --------------------------------------------------------------------- C24

\* The route handler threw in this run.
HandlerThrew == Logged(<<"threw", 0>>)

\* C24: when a guard refused or threw, a pipe threw or the handler threw,
\* the outcome of the finished request is a Failure.  No interceptor turns
\* an error into a value: where the stream of an interceptor delivered an
\* error, the stream of the interceptor around it delivered an error too,
\* and an error of a pipe or of the handler that reached the innermost
\* interceptor left it as an error.
C24_NoSilentRecovery ==
  /\ (stage = "done" /\ (~EveryGuardTrue \/ PipeFailed \/ HandlerThrew))
       => outcome.type = "Failure"
  /\ \A i \in 1..(NInterceptors - 1) :
       (IsErr(yielded[i + 1]) /\ yielded[i] # NoNotif) => IsErr(yielded[i])
  /\ (NInterceptors > 0 /\ yielded[NInterceptors] # NoNotif /\ timedOut = 0
        /\ (PipeFailed \/ HandlerThrew))
       => IsErr(yielded[NInterceptors])

\* The handler threw through a TransformInterceptor inside an
\* ErrorsInterceptor: the request ended in a Failure.
C24_Witness ==
  /\ stage = "done"
  /\ route.interceptors = <<"ErrorsInterceptor", "TransformInterceptor">>
  /\ HandlerThrew
  /\ IsErr(yielded[2])
  /\ yielded[1] = Err("BadGatewayException")
  /\ outcome.type = "Failure"

\* --------------------------------------------------------------------- C25

\* How often intercept() of interceptor i ran.
InterceptCalls(i) ==
  Cardinality({p \in DOMAIN log : log[p] = <<"intercept", i>>})

\* The operators of an ErrorsInterceptor are about to see, or have just
\* seen, what its next.handle() delivered.
ErrorsStep ==
  /\ stage = "post"
  /\ iIdx >= 1
  /\ Chain[iIdx] = "ErrorsInterceptor"
  /\ iIdx' = iIdx - 1

\* C25: an ErrorsInterceptor delivers BadGatewayException for every error
\* its next.handle() delivers, whatever the error, and delivers every value
\* as it came; its intercept() runs once and calls next.handle() once, so the
\* handler is called at most once.
C25_ErrorsInterceptor ==
  /\ [](\A i \in 1..NInterceptors :
          (Chain[i] = "ErrorsInterceptor" /\ yielded[i] # NoNotif)
            => /\ IsErr(yielded[i]) => yielded[i] = Err("BadGatewayException")
               /\ InterceptCalls(i) = 1
               /\ CallsHandle(Chain[i])
               /\ handlerCalls <= 1
               /\ (i < NInterceptors /\ yielded[i + 1] # NoNotif)
                    => yielded[i] = IF IsErr(yielded[i + 1])
                                    THEN Err("BadGatewayException")
                                    ELSE yielded[i + 1])
  /\ [][ErrorsStep
          => /\ notif' = IF IsErr(notif) THEN Err("BadGatewayException")
                         ELSE notif
             /\ yielded'[iIdx] = notif'
             /\ handlerCalls' = handlerCalls]_vars

\* A pipe's BadRequestException reached an ErrorsInterceptor and left it as
\* BadGatewayException: the request ended in BadGateway.
C25_Witness ==
  /\ stage = "done"
  /\ route.interceptors = <<"ErrorsInterceptor">>
  /\ PipeFailed
  /\ slotVal[1] = Err("BadRequestException")
  /\ yielded[1] = Err("BadGatewayException")
  /\ InterceptCalls(1) = 1
  /\ outcome.kind = "BadGateway"

\* --------------------------------------------------------------------- C26

\* The operators of a TimeoutInterceptor are about to see, or have just
\* seen, what its next.handle() delivered or its timeout() raised.
TimeoutStep ==
  /\ stage = "post"
  /\ iIdx >= 1
  /\ Chain[iIdx] = "TimeoutInterceptor"
  /\ iIdx' = iIdx - 1

\* C26: a TimeoutInterceptor whose deadline has not passed delivers what its
\* next.handle() delivered, value or error, as it came; it delivers
\* RequestTimeoutException in place of something else only when its own
\* deadline has passed, and a request ends in Timeout only after a deadline
\* has passed.
C26_TimeoutFrame ==
  /\ [](/\ \A i \in 1..NInterceptors :
             (Chain[i] = "TimeoutInterceptor" /\ yielded[i] # NoNotif
                /\ timedOut # i)
               => /\ (i < NInterceptors /\ yielded[i + 1] # NoNotif)
                       => yielded[i] = yielded[i + 1]
                  /\ (i = NInterceptors /\ ~IsErr(yielded[i]) /\ handlerCalls = 1)
                       => yielded[i] \in {HandlerResult(b, handlerArgs) :
                                            b \in HandlerBehaviours}
        /\ (stage = "done" /\ outcome.kind = "Timeout") => timedOut # 0)
  /\ [][TimeoutStep
          => /\ timedOut # iIdx => notif' = notif
             /\ (notif' = Err("RequestTimeoutException") /\ notif' # notif)
                  => (timedOut = iIdx /\ notif = Err("TimeoutError"))]_vars

\* The handler threw ForbiddenException before the deadline of the
\* TimeoutInterceptor around it: the request ended in Forbidden.
C26_Witness ==
  /\ stage = "done"
  /\ route.interceptors = <<"TimeoutInterceptor">>
  /\ timedOut = 0
  /\ HandlerThrew
  /\ yielded[1] = Err("ForbiddenException")
  /\ outcome.kind = "Forbidden"

\* --------------------------------------------------------------------- C27

\* Guard i has answered.
Resolved(i) == Logged(<<"resolved", i>>)

\* C27: a RolesGuard2 on a handler without roles metadata returns true,
\* whoever asks.  With roles metadata and a user attached to the request it
\* returns true exactly when the user's role is one of the roles: the
\* request goes on to the next guard; otherwise it returns false, the
\* request is refused as Forbidden and the handler is not called.  An empty
\* list of roles admits no user.
C27_RolesGuard2 ==
  \A i \in 1..NGuards :
    (route.guards[i] = "RolesGuard2" /\ Resolved(i))
      => /\ ~route.roles.present => gIdx > i
         /\ request.user # "absent"
              => LET admitted == \/ ~route.roles.present
                                 \/ \E r \in DOMAIN route.roles.list :
                                      route.roles.list[r] = request.user
                 IN /\ gIdx > i <=> admitted
                    /\ ~admitted
                         => /\ notif = Err("ForbiddenException")
                            /\ handlerCalls = 0
                            /\ stage = "done" => outcome.kind = "Forbidden"
         /\ (route.roles = Roles(<< >>) /\ request.user # "absent")
              => gIdx = i /\ stage \in {"translate", "done"}
         /\ (route.roles = Roles(<<"admin">>) /\ request.user = "admin")
              => gIdx > i
         /\ (route.roles = Roles(<<"admin">>) /\ request.user = "user")
              => gIdx = i

\* An admin asked for a handler whose list of roles is empty and was refused.
C27_Witness ==
  /\ stage = "done"
  /\ route.guards = <<"RolesGuard2">>
  /\ route.roles = Roles(<< >>)
  /\ request.user = "admin"
  /\ Resolved(1)
  /\ outcome.kind = "Forbidden"
  /\ handlerCalls = 0

\* --------------------------------------------------------------------- C28

\* C28: a RolesGuard2 on a handler with roles metadata, asked for a request
\* without a user, does not return false: reading user.role throws.  The
\* error goes to the exceptions layer, the request ends in a Failure that is
\* not the generic Forbidden (InternalError, the error being no
\* HttpException) and the handler is not called.
C28_AbsentUserThrows ==
  \A i \in 1..NGuards :
    (route.guards[i] = "RolesGuard2" /\ Resolved(i) /\ route.roles.present
       /\ request.user = "absent")
      => /\ gIdx = i
         /\ stage \in {"translate", "done"}
         /\ IsErr(notif)
         /\ notif # Err("ForbiddenException")
         /\ handlerCalls = 0
         /\ stage = "done"
              => /\ outcome.type = "Failure"
                 /\ outcome.kind # "Forbidden"
                 /\ outcome.kind = "InternalError"

\* A request without a user met a RolesGuard2 with roles and ended in
\* InternalError.
C28_Witness ==
  /\ stage = "done"
  /\ route.guards = <<"AuthGuard", "RolesGuard2">>
  /\ route.roles = Roles(<<"admin">>)
  /\ request.user = "absent"
  /\ Resolved(2)
  /\ notif = Err("TypeError")
  /\ outcome.kind = "InternalError"
  /\ handlerCalls = 0

\* ------------------------------------------------ requests to stored routes

\* How many requests are dispatched in a run.
MaxServed == 2

\* The routes that take requests.
ServedRouteIds == {"GET cats", "GET cats/:id"}

\* What these routes are registered with.
ServedDescriptors ==
  {Route(<<"AuthGuard">>, NoRoles, <<"TimeoutInterceptor">>,
         << <<"ParseIntPipe">> >>, NoFilters),
   Route(<<"RolesGuard2">>, Roles(<<"admin">>), << >>, << >>, NoFilters)}

\* The requests a route with this descriptor may get, from an admin or
\* from another user.
RequestsFor(descriptor) ==
  {Request(b, IF b = "admin" THEN "admin" ELSE "user", p) :
     b \in BodyUsers,
     p \in IF descriptor.slots = << >> THEN {<< >>}
           ELSE {<<Str(<<"4", "2">>)>>, <<Str(<<"a", "b", "c">>)>>}}

\* The requests that arrive.
ServedRequests == UNION {RequestsFor(d) : d \in ServedDescriptors}

\* getMetadata(routeId, key): the value the descriptor of routeId carries
\* under key, or absent (NoRoles).
getMetadata(routeId, key) ==
  IF routeId \in DOMAIN store /\ key = "roles" THEN store[routeId].roles
  ELSE NoRoles

\* A dispatch that takes the guards off the stored descriptor as it hands
\* them to the pipeline.
DispatchConsumes(routeId, req) ==
  /\ served < MaxServed
  /\ served = 0 \/ Quiescent
  /\ routeId \in DOMAIN store
  /\ req \in RequestsFor(store[routeId])
  /\ served' = served + 1
  /\ lastOp' = [op |-> "dispatch", routeId |-> routeId, given |-> NoDescriptor,
                status |-> "ok", found |-> store[routeId]]
  /\ route' = store[routeId]
  /\ request' = req
  /\ stage' = "guards"
  /\ gIdx' = 1
  /\ gPending' = FALSE
  /\ iIdx' = 1
  /\ listening' = FALSE
  /\ inner' = "idle"
  /\ slotPos' = [s \in 1..Len(store[routeId].slots) |-> 1]
  /\ slotVal' = req.params
  /\ handlerCalls' = 0
  /\ handlerArgs' = << >>
  /\ notif' = NoNotif
  /\ yielded' = [i \in 1..Len(store[routeId].interceptors) |-> NoNotif]
  /\ outcome' = NoOutcome
  /\ responses' = 0
  /\ discarded' = 0
  /\ timedOut' = 0
  /\ log' = << >>
  /\ store' = [store EXCEPT ![routeId].guards = << >>]
  /\ UNCHANGED <<registrations, inflight, providerVars>>

\* A request for routeId arrives once the request before it is answered: the
\* descriptor is looked up and the request enters the pipeline with it.
Dispatch(routeId, req) ==
  /\ served < MaxServed
  /\ served = 0 \/ Quiescent
  /\ routeId \in DOMAIN store
  /\ req \in RequestsFor(store[routeId])
  /\ served' = served + 1
  /\ lastOp' = [op |-> "dispatch", routeId |-> routeId, given |-> NoDescriptor,
                status |-> "ok", found |-> store[routeId]]
  /\ route' = store[routeId]
  /\ request' = req
  /\ stage' = "guards"
  /\ gIdx' = 1
  /\ gPending' = FALSE
  /\ iIdx' = 1
  /\ listening' = FALSE
  /\ inner' = "idle"
  /\ slotPos' = [s \in 1..Len(store[routeId].slots) |-> 1]
  /\ slotVal' = req.params
  /\ handlerCalls' = 0
  /\ handlerArgs' = << >>
  /\ notif' = NoNotif
  /\ yielded' = [i \in 1..Len(store[routeId].interceptors) |-> NoNotif]
  /\ outcome' = NoOutcome
  /\ responses' = 0
  /\ discarded' = 0
  /\ timedOut' = 0
  /\ log' = << >>
  /\ UNCHANGED <<store, registrations, inflight, providerVars>>

\* The pipeline works on the request dispatched last.
Serve == served > 0 /\ Next

InitServed == Arrival(QuietCases) /\ EmptyStore

NextServed ==
  \/ \E routeId \in ServedRouteIds : \E descriptor \in ServedDescriptors :
       register(routeId, descriptor)
  \/ \E routeId \in ServedRouteIds : lookup(routeId)
  \/ \E routeId \in ServedRouteIds : \E req \in ServedRequests :
       Dispatch(routeId, req)
  \/ Serve

SpecServed == InitServed /\ [][NextServed]_vars

\* --------------------------------------------------------------------- C29

\* C29: request processing never changes a registered descriptor.  Whatever
\* requests were dispatched and however they ended, the store holds under
\* every registered routeId the descriptor it was first registered with,
\* lookup returns it and getMetadata returns its roles; the pipeline works
\* on a descriptor equal to a registered one.
C29_DescriptorsReadOnly ==
  /\ DOMAIN store = {r \in ServedRouteIds : RegistrationsOf(r) # {}}
  /\ \A r \in DOMAIN store :
       /\ store[r] = FirstGiven(r)
       /\ getMetadata(r, "roles") = FirstGiven(r).roles
  /\ (lastOp.op \in {"lookup", "dispatch"} /\ lastOp.status = "ok")
       => lastOp.found = FirstGiven(lastOp.routeId)
  /\ served > 0 => \E r \in DOMAIN store : route = FirstGiven(r)

\* Two requests were served, the second refused by its guard, and a lookup
\* after them returned the descriptor with its guards and roles.
C29_Witness ==
  /\ served = 2
  /\ Quiescent
  /\ outcome.type = "Failure"
  /\ outcome.kind = "Forbidden"
  /\ lastOp.op = "lookup"
  /\ lastOp.status = "ok"
  /\ lastOp.found = route
  /\ route.guards = <<"RolesGuard2">>
  /\ getMetadata(lastOp.routeId, "roles") = Roles(<<"admin">>)

\* -------------------------------------------------------------- CatsService

\* How many calls of the service a run makes.
MaxCalls == 4

\* A cat: { name, age, breed }.
Cat(name, age, breed) == [name |-> name, age |-> age, breed |-> breed]

\* The cats callers pass to create().
Cats == {Cat("Tom", 3, "Maine Coon"), Cat("Kitty", 1, "Siamese"),
         Cat("Felix", 7, "Persian")}

\* A call of the service: for create the cat given and the cat returned,
\* for findAll the list returned.
CatCall(op, arg, ret) == [op |-> op, arg |-> arg, ret |-> ret]

\* A create that puts the new cat in front: this.cats.unshift(cat).
createUnshift(cat) ==
  /\ Len(catCalls) < MaxCalls
  /\ cats' = <<cat>> \o cats
  /\ catCalls' = Append(catCalls, CatCall("create", <<cat>>, <<cats'[Len(cats')]>>))
  /\ UNCHANGED <<pipelineVars, store, registrations, lastOp, inflight,
                 validation, served>>

\* CatsService.create: push the cat and return the last element.
create(cat) ==
  /\ Len(catCalls) < MaxCalls
  /\ cats' = Append(cats, cat)
  /\ catCalls' = Append(catCalls, CatCall("create", <<cat>>, <<cats'[Len(cats')]>>))
  /\ UNCHANGED <<pipelineVars, store, registrations, lastOp, inflight,
                 validation, served>>

\* CatsService.findAll: return the cats.
findAll ==
  /\ Len(catCalls) < MaxCalls
  /\ catCalls' = Append(catCalls, CatCall("findAll", << >>, cats))
  /\ UNCHANGED <<pipelineVars, store, registrations, lastOp, inflight,
                 validation, cats, served>>

InitCats == Arrival(QuietCases) /\ EmptyStore

NextCats ==
  \/ \E cat \in Cats : create(cat)
  \/ findAll

SpecCats == InitCats /\ [][NextCats]_vars

\* --------------------------------------------------------------------- C30

\* The cats given to the create() calls among the first n calls, in order.
RECURSIVE CreatedBy(_)
CreatedBy(n) ==
  IF n = 0 THEN << >>
  ELSE IF catCalls[n].op = "create" THEN CreatedBy(n - 1) \o catCalls[n].arg
  ELSE CreatedBy(n - 1)

\* C30: after any sequence of create() and findAll() calls the service
\* holds exactly the cats given to create(), in call order, none lost and
\* none twice; every create() returned the cat it was given and every
\* findAll() returned the cats created before it, leaving the list as it
\* was.
C30_CatsInCallOrder ==
  /\ cats = CreatedBy(Len(catCalls))
  /\ \A n \in DOMAIN catCalls :
       /\ catCalls[n].op = "create" => catCalls[n].ret = catCalls[n].arg
       /\ catCalls[n].op = "findAll" => catCalls[n].ret = CreatedBy(n - 1)

\* Kitty, then Tom were created, and the findAll() after them returned
\* Kitty, Tom; a third cat came after it.
C30_Witness ==
  /\ Len(catCalls) = 4
  /\ catCalls[1] = CatCall("create", <<Cat("Kitty", 1, "Siamese")>>,
                           <<Cat("Kitty", 1, "Siamese")>>)
  /\ catCalls[2].op = "create"
  /\ catCalls[3] = CatCall("findAll", << >>,
                           <<Cat("Kitty", 1, "Siamese"), Cat("Tom", 3, "Maine Coon")>>)
  /\ catCalls[4].op = "create"
  /\ Len(cats) = 3

====
